---- MODULE Spec2Model ----
(***************************************************************************)
(* silk-sync-action: the main step of a run.  Project resolution           *)
(* (resolveProjects), the sequential repository loop (processRepos /       *)
(* processRepo), label sync, settings sync, project link and backfill.     *)
(* Every remote call is one step; a call's outcome is chosen when the call *)
(* is made.                                                                *)
(*                                                                         *)
(* Strings whose letter case matters (label names, colours, custom         *)
(* property values) are sequences of one-character strings; a setting's    *)
(* value is the string of its JSON form ("true", "false", "PR_TITLE").     *)
(***************************************************************************)
EXTENDS Integers, Sequences, FiniteSets, TLC

\* ------------------------------------------------------------------ bounds

\* Most open issues/PRs a repository with few of them lists on one page; of
\* any page, the items whose replies are left open.
MaxItems == 1

\* Most calls made for the repositories of one run that fail with an error.
MaxFailures == 1

\* How many full pages of open issues/PRs a repository has at most.
MaxFullPages == 4

\* How many repositories the run that paces itself processes.
MaxPacedRepos == 11

\* ------------------------------------------------------ program constants

REST_CHECK_INTERVAL == 10
GRAPHQL_CHECK_INTERVAL == 3
PER_PAGE == 100
INTER_REPO_DELAY_MS == 1000
INTER_ITEM_DELAY_MS == 100
REST_WARNING_THRESHOLD == 100
REST_PAUSE_THRESHOLD == 50
REST_PAUSE_DURATION_MS == 60000
GRAPHQL_PAUSE_THRESHOLD == 100
GRAPHQL_PAUSE_DURATION_MS == 30000

\* Number.MAX_SAFE_INTEGER is 2^53 - 1; it stands here as the greatest integer
\* the model's 32-bit integers have.  Every reading of a rate limit is below it.
MAX_SAFE_INTEGER == 2147483647

\* ------------------------------------------------------------ JS builtins

UpperChars == <<"A", "B", "D", "E", "F", "G", "L", "S", "T", "U">>
LowerChars == <<"a", "b", "d", "e", "f", "g", "l", "s", "t", "u">>

\* The lower-case letter of each upper-case letter.
LowerOf ==
    [c \in {UpperChars[n] : n \in 1..Len(UpperChars)} |->
        LowerChars[CHOOSE n \in 1..Len(UpperChars) : UpperChars[n] = c]]

ToLowerChar(c) == IF c \in DOMAIN LowerOf THEN LowerOf[c] ELSE c

\* String.prototype.toLowerCase
ToLowerCase(s) == [n \in 1..Len(s) |-> ToLowerChar(s[n])]

Digits == <<"0", "1", "2", "3", "4", "5", "6", "7", "8", "9">>
IsDigit(c) == \E d \in 1..10 : Digits[d] = c
DigitVal(c) == (CHOOSE d \in 1..10 : Digits[d] = c) - 1

RECURSIVE DigitRun(_, _)
\* Length of the run of digits of s that starts at position n.
DigitRun(s, n) ==
    IF n <= Len(s) /\ IsDigit(s[n]) THEN 1 + DigitRun(s, n + 1) ELSE 0

RECURSIVE DecimalValue(_, _, _)
\* Value of the digits s[from .. from + count - 1].
DecimalValue(s, from, count) ==
    IF count = 0 THEN 0
    ELSE 10 * DecimalValue(s, from, count - 1) + DigitVal(s[from + count - 1])

RECURSIVE SkipSpaces(_, _)
SkipSpaces(s, n) == IF n <= Len(s) /\ s[n] = " " THEN SkipSpaces(s, n + 1) ELSE n

\* Number.parseInt(s, 10): leading blanks, an optional sign, then the longest
\* run of digits; NaN when there is no digit there.
ParseInt(s) ==
    LET a == SkipSpaces(s, 1)
        signed == a <= Len(s) /\ s[a] \in {"+", "-"}
        b == IF signed THEN a + 1 ELSE a
        run == DigitRun(s, b)
        mag == DecimalValue(s, b, run)
    IN  IF run = 0 THEN [nan |-> TRUE, val |-> 0]
        ELSE [nan |-> FALSE, val |-> IF signed /\ s[a] = "-" THEN 0 - mag ELSE mag]

RECURSIVE UniqueFrom(_, _)
\* [...new Set(xs)]: the distinct elements in order of first occurrence.
UniqueFrom(xs, seen) ==
    IF xs = <<>> THEN <<>>
    ELSE IF Head(xs) \in seen THEN UniqueFrom(Tail(xs), seen)
    ELSE <<Head(xs)>> \o UniqueFrom(Tail(xs), seen \cup {Head(xs)})

\* A spread that keeps every occurrence.
KeepDuplicates(xs) == xs

Unique(xs) == UniqueFrom(xs, {})

Range(xs) == {xs[n] : n \in 1..Len(xs)}

\* String.prototype.includes
Includes(s, sub) ==
    \E n \in 0..(Len(s) - Len(sub)) : SubSeq(s, n + 1, n + Len(sub)) = sub

\* ---------------------------------------------------------- configuration

\* description: string | null
Null == "<null>"
\* a key a record does not have
Undefined == "<undefined>"

SYNCABLE_KEYS ==
    << "has_wiki", "has_issues", "has_projects", "has_discussions",
       "allow_merge_commit", "allow_squash_merge", "squash_merge_commit_title",
       "squash_merge_commit_message", "allow_rebase_merge", "allow_update_branch",
       "delete_branch_on_merge", "web_commit_signoff_required", "allow_auto_merge" >>

NameBug == <<"b", "u", "g">>
NameBugCased == <<"B", "u", "g">>
NameFeat == <<"f", "e", "a", "t">>
NameStale == <<"S", "t", "a", "l", "e">>
ColorRed == <<"d", "7", "3", "a", "4", "a">>
ColorRedUpper == <<"D", "7", "3", "A", "4", "A">>
ColorBlue == <<"a", "2", "e", "e", "e", "f">>
ColorBlueUpper == <<"A", "2", "E", "E", "E", "F">>

LabelBug == [name |-> NameBug, description |-> "Bug report", color |-> ColorRed]
LabelFeat == [name |-> NameFeat, description |-> "", color |-> ColorBlue]

\* SilkConfig documents: ordered labels and a sparse settings object.
Configs ==
    { [labels |-> <<LabelBug, LabelFeat>>,
       settings |-> [key \in {"has_wiki", "has_issues", "squash_merge_commit_title"} |->
                        CASE key = "has_wiki" -> "false"
                          [] key = "has_issues" -> "true"
                          [] OTHER -> "PR_TITLE"]] }

\* ActionInputs: the five flags the main step reads.
Inputs ==
    [dryRun : BOOLEAN, removeCustomLabels : BOOLEAN, syncSettings : BOOLEAN,
     syncProjects : BOOLEAN, skipBackfill : BOOLEAN]

\* ------------------------------------------------- the remote side's replies

StrTrue == <<"t", "r", "u", "e">>

\* customProperties maps a discovered repository can carry.
NoProps == [key \in {} |-> <<>>]
KeyProjectTracking ==
    <<"p", "r", "o", "j", "e", "c", "t", "-", "t", "r", "a", "c", "k", "i", "n", "g">>
KeyProjectNumber ==
    <<"p", "r", "o", "j", "e", "c", "t", "-", "n", "u", "m", "b", "e", "r">>
TrackedProps(number) ==
    [key \in {KeyProjectTracking, KeyProjectNumber} |->
        IF key = KeyProjectTracking THEN StrTrue ELSE number]

RepoNames ==
    <<"repo-a", "repo-b", "repo-c", "repo-d", "repo-e", "repo-f", "repo-g", "repo-h",
      "repo-i", "repo-j", "repo-k", "repo-l", "repo-m">>
NodeIds ==
    <<"R_a", "R_b", "R_c", "R_d", "R_e", "R_f", "R_g", "R_h", "R_i", "R_j", "R_k", "R_l", "R_m">>

DiscoveredRepo(n, props) ==
    [name |-> RepoNames[n], owner |-> "org", nodeId |-> NodeIds[n],
     customProperties |-> props]

\* The lists discovery can hand to the main step: never empty (discovery fails
\* on an empty set), full names distinct.  An untracked repository, a tracked
\* one, two that share a project, two with a project each.
RepoLists ==
    { <<DiscoveredRepo(1, NoProps)>>,
      <<DiscoveredRepo(1, TrackedProps(<<"1">>))>>,
      <<DiscoveredRepo(1, TrackedProps(<<"1">>)), DiscoveredRepo(2, TrackedProps(<<"1">>))>>,
      <<DiscoveredRepo(1, TrackedProps(<<"2">>)), DiscoveredRepo(2, TrackedProps(<<"1">>))>> }

\* GitHubRepo values getRepo can return for a repository.
DefaultSettings ==
    [key \in Range(SYNCABLE_KEYS) |->
        CASE key = "squash_merge_commit_title" -> "COMMIT_OR_PR_TITLE"
          [] key = "squash_merge_commit_message" -> "COMMIT_MESSAGES"
          [] OTHER -> "true"]

ObservedSettings ==
    { DefaultSettings,
      [DefaultSettings EXCEPT !["has_wiki"] = "false",
                              !["squash_merge_commit_title"] = "PR_TITLE"] }

GitHubRepo(settings, nodeId) ==
    [key \in Range(SYNCABLE_KEYS) \cup {"node_id"} |->
        IF key = "node_id" THEN nodeId ELSE settings[key]]

\* repoData === null
NullRepo == [key \in {} |-> ""]

\* GitHubLabel lists listLabels can return: no labels; or a label that matches
\* a desired one but for its casing, one that matches up to the case of the
\* colour and a null description, and one no desired label matches.
ObservedLabelLists ==
    { <<>>,
      << [name |-> NameBugCased, description |-> "Bug report", color |-> ColorRed],
         [name |-> NameFeat, description |-> Null, color |-> ColorBlueUpper],
         [name |-> NameStale, description |-> "Old", color |-> ColorBlue] >> }

\* Numbers of items listOpenIssues can return for a page.
PageSizes == 0..MaxItems

\* The repository with many open issues: its first MaxFullPages pages can be full.
ManyIssuesRepo == DiscoveredRepo(13, TrackedProps(<<"1">>))

\* Numbers of items listOpenIssues can return for a page of a repository: a
\* page of the repository with many open issues can also be one short of
\* full, or full as long as there are full pages left.
PageSizesOf(repo, pageNo) ==
    IF repo.name = ManyIssuesRepo.name
    THEN PageSizes \cup {PER_PAGE - 1} \cup (IF pageNo <= MaxFullPages THEN {PER_PAGE} ELSE {})
    ELSE PageSizes

\* Error messages a failed GraphQL mutation can carry (GraphQLError.reason).
ReasonAlreadyExists ==
    <<"i", "t", "e", "m", " ", "a", "l", "r", "e", "a", "d", "y", " ", "e", "x", "i", "s", "t", "s">>
ReasonNotFound == <<"n", "o", "t", " ", "f", "o", "u", "n", "d">>

\* Replies to linkRepoToProject and addItemToProject.
GraphQLReplies ==
    {[ok |-> TRUE, reason |-> <<>>]}
      \cup {[ok |-> FALSE, reason |-> r] : r \in {ReasonAlreadyExists, ReasonNotFound}}

\* Replies to addItemToProject for the item at a position of its page: what
\* the first MaxItems items of a page are answered is open, the items after
\* them are added.
ItemReplies(position) ==
    IF position <= MaxItems THEN GraphQLReplies ELSE {[ok |-> TRUE, reason |-> <<>>]}

\* A test that takes every failure for "already exists".
isAlreadyExistsAlways(reason) == TRUE

\* GraphQLError.isAlreadyExists
isAlreadyExists(reason) ==
    Includes(reason, <<"a", "l", "r", "e", "a", "d", "y">>)
      \/ Includes(reason, <<"e", "x", "i", "s", "t", "s">>)

ProjectInfo(num, closed) ==
    [id |-> "PVT", title |-> "Board", number |-> num, closed |-> closed]

\* ------------------------------------------------ pure parts of the program

HasKey(f, key) == key \in DOMAIN f

\* getProjectNumber: the project number of a tracked repository, NoProject
\* (null) otherwise.
NoProject == 0

\* A reading of the properties that takes the tracking flag in any case.
getProjectNumberAnyCase(repo) ==
    LET props == repo.customProperties
        tracked == HasKey(props, KeyProjectTracking)
                     /\ ToLowerCase(props[KeyProjectTracking]) = StrTrue
        given == HasKey(props, KeyProjectNumber) /\ props[KeyProjectNumber] # <<>>
    IN  IF tracked /\ given
        THEN LET num == ParseInt(props[KeyProjectNumber])
             IN  IF ~num.nan /\ num.val > 0 THEN num.val ELSE NoProject
        ELSE NoProject

getProjectNumber(repo) ==
    LET props == repo.customProperties
        tracked == HasKey(props, KeyProjectTracking)
                     /\ props[KeyProjectTracking] = StrTrue
        \* `&& projectNumber`: present and not the empty string
        given == HasKey(props, KeyProjectNumber) /\ props[KeyProjectNumber] # <<>>
    IN  IF tracked /\ given
        THEN LET num == ParseInt(props[KeyProjectNumber])
             IN  IF ~num.nan /\ num.val > 0 THEN num.val ELSE NoProject
        ELSE NoProject

RECURSIVE extractProjectNumbersFrom(_)
extractProjectNumbersFrom(rs) ==
    IF rs = <<>> THEN <<>>
    ELSE LET props == Head(rs).customProperties
             tracked == HasKey(props, KeyProjectTracking)
                          /\ props[KeyProjectTracking] = StrTrue
             given == HasKey(props, KeyProjectNumber) /\ props[KeyProjectNumber] # <<>>
             num == ParseInt(props[KeyProjectNumber])
         IN  (IF tracked /\ given /\ ~num.nan /\ num.val > 0 THEN <<num.val>> ELSE <<>>)
                \o extractProjectNumbersFrom(Tail(rs))

\* extractProjectNumbers: a Set filled in repository order, spread to an array.
extractProjectNumbers(rs) == Unique(extractProjectNumbersFrom(rs))

\* syncLabels: existingLabels.find(l => l.name.toLowerCase() === desired.name.toLowerCase());
\* the position of the first match, 0 when there is none.
FindExisting(existingLabels, desired) ==
    LET hits == {n \in 1..Len(existingLabels) :
                    ToLowerCase(existingLabels[n].name) = ToLowerCase(desired.name)}
    IN  IF hits = {} THEN 0 ELSE CHOOSE n \in hits : \A m \in hits : n <= m

\* A selection of custom labels that compares names exactly.
CustomLabelsExact(existingLabels, desiredLabels) ==
    LET desiredNameSet == {desiredLabels[n].name : n \in 1..Len(desiredLabels)}
        IsCustom(l) == l.name \notin desiredNameSet
        kept == SelectSeq(existingLabels, IsCustom)
    IN  [n \in 1..Len(kept) |-> kept[n].name]

\* syncLabels: the names of the observed labels that match no desired label.
CustomLabels(existingLabels, desiredLabels) ==
    LET desiredNameSet == {ToLowerCase(desiredLabels[n].name) : n \in 1..Len(desiredLabels)}
        IsCustom(l) == ToLowerCase(l.name) \notin desiredNameSet
        kept == SelectSeq(existingLabels, IsCustom)
    IN  [n \in 1..Len(kept) |-> kept[n].name]

colorDiffers(existing, desired) == ToLowerCase(existing.color) # ToLowerCase(desired.color)
descriptionDiffers(existing, desired) ==
    (IF existing.description = Null THEN "" ELSE existing.description) # desired.description

\* A comparison of names that takes a difference of case for none.
casingNeverDiffers(existing, desired) == ToLowerCase(existing.name) # ToLowerCase(desired.name)

casingDiffers(existing, desired) == existing.name # desired.name

\* syncLabels: the changes list of an update, in the order the code pushes them.
LabelChanges(existing, desired) ==
    (IF casingDiffers(existing, desired) THEN <<"name">> ELSE <<>>)
      \o (IF descriptionDiffers(existing, desired) THEN <<"description">> ELSE <<>>)
      \o (IF colorDiffers(existing, desired) THEN <<"color">> ELSE <<>>)

\* syncLabels: what the loop does for one desired label.
LabelOperation(existingLabels, desired) ==
    LET at == FindExisting(existingLabels, desired)
    IN  IF at = 0 THEN "created"
        ELSE IF colorDiffers(existingLabels[at], desired)
                  \/ descriptionDiffers(existingLabels[at], desired)
                  \/ casingDiffers(existingLabels[at], desired)
        THEN "updated"
        ELSE "unchanged"

\* A diff that takes every desired key, whatever the observed value.
DriftKeyDesired(desiredSettings, currentRepo, key) == HasKey(desiredSettings, key)

\* syncSettings: the keys of SYNCABLE_KEYS the desired settings give and the
\* observed repository holds a different value for, in SYNCABLE_KEYS order.
DriftKey(desiredSettings, currentRepo, key) ==
    /\ HasKey(desiredSettings, key)
    /\ (IF HasKey(currentRepo, key) THEN currentRepo[key] ELSE Undefined) # desiredSettings[key]

SettingChanges(desiredSettings, currentRepo) ==
    LET Drifts(key) == DriftKey(desiredSettings, currentRepo, key)
        keys == SelectSeq(SYNCABLE_KEYS, Drifts)
    IN  [n \in 1..Len(keys) |->
            [key |-> keys[n],
             from |-> IF HasKey(currentRepo, keys[n]) THEN currentRepo[keys[n]] ELSE Undefined,
             to |-> desiredSettings[keys[n]]]]

\* syncSettings: settingsToApply, the payload of the update call.
SettingsToApply(desiredSettings, currentRepo) ==
    LET changes == SettingChanges(desiredSettings, currentRepo)
    IN  [key \in {changes[n].key : n \in 1..Len(changes)} |-> desiredSettings[key]]

\* --------------------------------------------------------------- discovery

\* The organisation the run is for, and names of repositories.
OrgName == <<"e", "d">>
NameLab == <<"l", "a", "b">>
NameLabCased == <<"L", "a", "b">>
NameFeed == <<"f", "e", "e", "d">>
NameBed == <<"b", "e", "d">>
NameFlag == <<"f", "l", "a", "g">>
RawEdLab == <<"E", "d", "/", "l", "a", "b">>

\* inputs.repos: nothing listed; a bare name; two names; the same repository
\* as owner/repo and as a bare name.
NameLists ==
    { <<>>, <<NameLab>>, <<NameLabCased, NameFeed>>, <<RawEdLab, NameLab>> }

KeyTag == <<"t", "a", "g">>
KeyTagCased == <<"T", "a", "g">>
KeySub == <<"s", "u", "b">>
ValueA == <<"a">>
ValueACased == <<"A">>
ValueB == <<"b">>

\* inputs.customProperties: no filter; one filter; two filters.  parseInputs
\* lets no empty key or value through.
FilterLists ==
    { <<>>,
      <<[key |-> KeyTagCased, value |-> ValueA]>>,
      <<[key |-> KeyTag, value |-> ValueACased], [key |-> KeySub, value |-> ValueB]>> }

\* A property value: a string, or null.
Text(chars) == [isNull |-> FALSE, text |-> chars]
NullValue == [isNull |-> TRUE, text |-> <<>>]

FullName(owner, name) == (owner \o <<"/">>) \o name

\* The node id of the repository of a name, whatever the name's case.
NodeIdOf(name) ==
    CASE ToLowerCase(name) = NameLab -> "R_lab"
      [] ToLowerCase(name) = NameFeed -> "R_feed"
      [] ToLowerCase(name) = NameBed -> "R_bed"
      [] OTHER -> "R_flag"

\* An OrgRepoProperty of the organisation.
OrgRepoProperty(name, properties) ==
    [repository_name |-> name,
     repository_full_name |-> FullName(OrgName, name),
     repository_node_id |-> NodeIdOf(name),
     properties |-> properties]

\* lab: tag "A", sub "b", tracked by project 1.  feed: tag "a", sub null.
\* bed: sub "b", no tag.  flag: tag "b", sub "b".
OrgLab ==
    OrgRepoProperty(NameLab,
        << [property_name |-> KeyTagCased, value |-> Text(ValueACased)],
           [property_name |-> KeySub, value |-> Text(ValueB)],
           [property_name |-> KeyProjectTracking, value |-> Text(StrTrue)],
           [property_name |-> KeyProjectNumber, value |-> Text(<<"1">>)] >>)
OrgFeed ==
    OrgRepoProperty(NameFeed,
        << [property_name |-> KeyTag, value |-> Text(ValueA)],
           [property_name |-> KeySub, value |-> NullValue] >>)
OrgBed ==
    OrgRepoProperty(NameBed, << [property_name |-> KeySub, value |-> Text(ValueB)] >>)
OrgFlag ==
    OrgRepoProperty(NameFlag,
        << [property_name |-> KeyTag, value |-> Text(ValueB)],
           [property_name |-> KeySub, value |-> Text(ValueB)] >>)

\* What getOrgRepoProperties can return when it does not fail.  A repository
\* has one value per property of the organisation.
OrgReplies ==
    { <<>>, <<OrgLab, OrgFeed>>, <<OrgBed, OrgFlag, OrgFeed>> }

\* Replies to getRepo during discovery: the repository, named as it was asked
\* for; 404; another failure.
ValidationReplies == {"found", "not-found", "failed"}

\* String.prototype.indexOf("/"), 1-based; 0: no slash.
RECURSIVE IndexOfSlashFrom(_, _)
IndexOfSlashFrom(str, n) ==
    IF n > Len(str) THEN 0
    ELSE IF str[n] = "/" THEN n
    ELSE IndexOfSlashFrom(str, n + 1)

IndexOfSlash(str) == IndexOfSlashFrom(str, 1)

\* rawName.includes("/") ? rawName.split("/", 2) : [defaultOwner, rawName]
OwnerAndRepo(defaultOwner, rawName) ==
    LET at == IndexOfSlash(rawName)
    IN  IF at = 0 THEN <<defaultOwner, rawName>>
        ELSE LET rest == SubSeq(rawName, at + 1, Len(rawName))
                 next == IndexOfSlash(rest)
             IN  <<SubSeq(rawName, 1, at - 1),
                   IF next = 0 THEN rest ELSE SubSeq(rest, 1, next - 1)>>

\* discoverByExplicitList: the DiscoveredRepo of a getRepo reply that echoes
\* the owner and name asked for.
ValidatedRepo(owner, repo) ==
    [name |-> repo, owner |-> owner, fullName |-> FullName(owner, repo),
     nodeId |-> NodeIdOf(repo), customProperties |-> NoProps]

\* discoverByCustomProperties: repoProps.get(key).  The map holds, by
\* lower-cased property name, the lower-cased value ("" for null); of two
\* properties with one lower-cased name the later one stays.
RepoPropsGet(properties, key) ==
    LET hits == {n \in 1..Len(properties) : ToLowerCase(properties[n].property_name) = key}
    IN  IF hits = {} THEN [found |-> FALSE, value |-> <<>>]
        ELSE LET last == CHOOSE n \in hits : \A other \in hits : other <= n
                 value == properties[last].value
             IN  [found |-> TRUE,
                  value |-> IF value.isNull THEN <<>> ELSE ToLowerCase(value.text)]

\* A filter that compares the values as they are written.
FilterMatchesExactValue(properties, filter) ==
    LET actual == RepoPropsGet(properties, ToLowerCase(filter.key))
    IN  actual.found /\ actual.value = filter.value

\* discoverByCustomProperties: one filter against one repository.
FilterMatches(properties, filter) ==
    LET actual == RepoPropsGet(properties, ToLowerCase(filter.key))
    IN  actual.found /\ actual.value = ToLowerCase(filter.value)

\* discoverByCustomProperties: properties.every(...)
MatchesAll(properties, filters) ==
    \A n \in 1..Len(filters) : FilterMatches(properties, filters[n])

\* discoverByCustomProperties: propsMap, the properties with a value.
PropsMap(properties) ==
    LET valued == {n \in 1..Len(properties) : ~properties[n].value.isNull}
    IN  [name \in {properties[n].property_name : n \in valued} |->
            LET last == CHOOSE n \in valued :
                            /\ properties[n].property_name = name
                            /\ \A other \in valued :
                                  properties[other].property_name = name => other <= n
            IN  properties[last].value.text]

\* discoverByCustomProperties: filter, then map to DiscoveredRepo.
MatchedRepos(org, allRepos, filters) ==
    LET Matched(repo) == MatchesAll(repo.properties, filters)
        matched == SelectSeq(allRepos, Matched)
    IN  [n \in 1..Len(matched) |->
            [name |-> matched[n].repository_name,
             owner |-> org,
             fullName |-> matched[n].repository_full_name,
             nodeId |-> matched[n].repository_node_id,
             customProperties |-> PropsMap(matched[n].properties)]]

\* discoverRepos: where repoMap holds the key, 0 when it does not.  list is
\* the map's values in insertion order.
IndexOfKey(list, key) ==
    LET hits == {n \in 1..Len(list) : ToLowerCase(list[n].fullName) = key}
    IN  IF hits = {} THEN 0 ELSE CHOOSE n \in hits : TRUE

\* { ...a, ...b }
Overlay(a, b) ==
    [key \in DOMAIN a \cup DOMAIN b |-> IF key \in DOMAIN b THEN b[key] ELSE a[key]]

\* discoverRepos: repoMap.set(repo.fullName.toLowerCase(), repo)
SetOrgRepo(list, repo) ==
    LET at == IndexOfKey(list, ToLowerCase(repo.fullName))
    IN  IF at = 0 THEN Append(list, repo) ELSE [list EXCEPT ![at] = repo]

\* A merge in which the explicit entry replaces the one found by filter.
SetExplicitRepoOnly(list, repo) ==
    LET at == IndexOfKey(list, ToLowerCase(repo.fullName))
    IN  IF at = 0 THEN Append(list, repo) ELSE [list EXCEPT ![at] = repo]

\* discoverRepos: the loop body over explicitRepos.
SetExplicitRepo(list, repo) ==
    LET at == IndexOfKey(list, ToLowerCase(repo.fullName))
    IN  IF at = 0 THEN Append(list, repo)
        ELSE [list EXCEPT ![at] =
                [repo EXCEPT !.customProperties =
                    Overlay(repo.customProperties, list[at].customProperties)]]

RECURSIVE MergeOrg(_, _)
MergeOrg(list, orgRepos) ==
    IF orgRepos = <<>> THEN list
    ELSE MergeOrg(SetOrgRepo(list, Head(orgRepos)), Tail(orgRepos))

RECURSIVE MergeExplicit(_, _)
MergeExplicit(list, explicitRepos) ==
    IF explicitRepos = <<>> THEN list
    ELSE MergeExplicit(SetExplicitRepo(list, Head(explicitRepos)), Tail(explicitRepos))

\* discoverRepos: allRepos, Array.from(repoMap.values())
MergedRepos(orgRepos, explicitRepos) == MergeExplicit(MergeOrg(<<>>, orgRepos), explicitRepos)

\* ---------------------------------------------------------------- throttle

\* The remaining counts a rate limit pool can report.
Readings == {0, 1, 49, 50, 99, 100, 101, 5000}

\* Replies to getRateLimit: a failure, or a RateLimitInfo with the remaining
\* count of the core (REST) pool and of the graphql pool.
RateLimitReplies ==
    {[ok |-> FALSE, core |-> 0, graphql |-> 0]}
      \cup [ok : {TRUE}, core : Readings, graphql : Readings]

\* The replies a rate check can get: those of getRateLimit when the check is
\* due, one that is never looked at when it is not.
RepliesIf(due) ==
    IF due THEN RateLimitReplies ELSE {[ok |-> FALSE, core |-> 0, graphql |-> 0]}

\* What a rate check did: whether it called getRateLimit, whether it wrote a
\* warning, how long it paused (0: no pause), whether it failed, and the
\* number it returned.
CheckOutcome(called, warned, pause, value) ==
    [called |-> called, warned |-> warned, pause |-> pause, failed |-> FALSE, value |-> value]

\* A primary check that pauses at the threshold too.
checkRestPausesAtThreshold(client, reply) ==
    IF ~client THEN CheckOutcome(FALSE, FALSE, 0, MAX_SAFE_INTEGER)
    ELSE IF ~reply.ok THEN CheckOutcome(TRUE, FALSE, 0, MAX_SAFE_INTEGER)
    ELSE LET remaining == reply.core
         IN  IF remaining <= REST_PAUSE_THRESHOLD
             THEN CheckOutcome(TRUE, TRUE, REST_PAUSE_DURATION_MS, remaining)
             ELSE IF remaining < REST_WARNING_THRESHOLD
             THEN CheckOutcome(TRUE, TRUE, 0, remaining)
             ELSE CheckOutcome(TRUE, FALSE, 0, remaining)

\* checkRestRateLimit.  client: whether the GitHubRestClient service is
\* provided; reply: what getRateLimit answers when it is called.
checkRestRateLimit(client, reply) ==
    IF ~client THEN CheckOutcome(FALSE, FALSE, 0, MAX_SAFE_INTEGER)
    ELSE IF ~reply.ok THEN CheckOutcome(TRUE, FALSE, 0, MAX_SAFE_INTEGER)
    ELSE LET remaining == reply.core
         IN  IF remaining < REST_PAUSE_THRESHOLD
             THEN CheckOutcome(TRUE, TRUE, REST_PAUSE_DURATION_MS, remaining)
             ELSE IF remaining < REST_WARNING_THRESHOLD
             THEN CheckOutcome(TRUE, TRUE, 0, remaining)
             ELSE CheckOutcome(TRUE, FALSE, 0, remaining)

\* A secondary check that pauses and returns 0 when getRateLimit fails.
checkGraphQLPausesOnFailure(client, reply) ==
    IF ~client THEN CheckOutcome(FALSE, FALSE, 0, MAX_SAFE_INTEGER)
    ELSE IF ~reply.ok THEN CheckOutcome(TRUE, FALSE, GRAPHQL_PAUSE_DURATION_MS, 0)
    ELSE LET remaining == reply.graphql
         IN  IF remaining < GRAPHQL_PAUSE_THRESHOLD
             THEN CheckOutcome(TRUE, FALSE, GRAPHQL_PAUSE_DURATION_MS, remaining)
             ELSE CheckOutcome(TRUE, FALSE, 0, remaining)

\* checkGraphQLRateLimit; its message before the pause is an info, no warning.
checkGraphQLRateLimit(client, reply) ==
    IF ~client THEN CheckOutcome(FALSE, FALSE, 0, MAX_SAFE_INTEGER)
    ELSE IF ~reply.ok THEN CheckOutcome(TRUE, FALSE, 0, MAX_SAFE_INTEGER)
    ELSE LET remaining == reply.graphql
         IN  IF remaining < GRAPHQL_PAUSE_THRESHOLD
             THEN CheckOutcome(TRUE, FALSE, GRAPHQL_PAUSE_DURATION_MS, remaining)
             ELSE CheckOutcome(TRUE, FALSE, 0, remaining)

\* ------------------------------------------------------------------- state

VARIABLES
    inputs,          \* the run's flags
    config,          \* the desired labels and settings
    repos,           \* the discovered repositories, in discovery order
    pc,              \* where the main step is
    resolveIdx,      \* resolveProjects: position in the list of unique numbers
    projectCache,    \* project number -> cache entry
    i,               \* processRepos: 0-based index of the repository in progress
    results,         \* processRepos: the results pushed so far
    repoData,        \* processRepo: the fetched repository, NullRepo when the fetch failed
    errors,          \* processRepo: the error records of the repository in progress
    existingLabels,  \* syncLabels: the observed labels
    labelResults,    \* syncLabels: results
    k,               \* syncLabels: position in desired labels, then in custom labels
    settingsResult,  \* processRepo: settingsResult
    linkStatus,      \* syncProject: linkStatus (Null before the project step)
    projectTitle,    \* syncProject: projectTitle
    page,            \* backfillItems: page
    pageCount,       \* backfillItems: pageCount
    items,           \* backfillItems: number of items of the page in progress
    itemIdx,         \* backfillItems: position in that page
    added,           \* backfillItems: added
    alreadyPresent,  \* backfillItems: alreadyPresent
    calls,           \* every remote call and delay of the run, in order
    failed,          \* the calls made for the repository in progress that failed
    failures,        \* how many calls made for repositories have failed with an error
    rateCheck,       \* the rate check applied last on its own: its inputs and outcome
    customProperties, \* inputs.customProperties: the filters
    repoNames,       \* inputs.repos: the names listed
    allRepos,        \* discoverByCustomProperties: allRepos
    orgRepos,        \* discoverRepos: orgRepos
    discovered,      \* discoverByExplicitList: discovered
    validationErrors, \* discoverByExplicitList: errors
    nameIdx,         \* discoverByExplicitList: position in the names listed
    setFailed,       \* main.ts: the error core.setFailed was called with, "" when it was not
    remoteLabels     \* the labels the repository has on the remote, where passes of
                     \* syncLabels are followed one after the other

loopVars == <<i, results>>
repoVars == <<repoData, errors>>
labelVars == <<existingLabels, labelResults, k>>
projectVars == <<linkStatus, projectTitle>>
backfillVars == <<page, pageCount, items, itemIdx, added, alreadyPresent>>
discoveryVars ==
    <<customProperties, repoNames, allRepos, orgRepos, discovered, validationErrors,
      nameIdx, setFailed>>
runVars == <<inputs, config, repos, rateCheck, discoveryVars, remoteLabels>>

vars ==
    <<inputs, config, repos, pc, resolveIdx, projectCache, i, results, repoData, errors,
      existingLabels, labelResults, k, settingsResult, linkStatus, projectTitle,
      page, pageCount, items, itemIdx, added, alreadyPresent, calls, failed, failures,
      rateCheck, customProperties, repoNames, allRepos, orgRepos, discovered,
      validationErrors, nameIdx, setFailed, remoteLabels>>

\* One entry of the call log.  repo is the 0-based index of the repository the
\* call is made for (-1 for project resolution); name is a label name, num a
\* project number, page number or item position, payload a settings patch.
Call(op, repo, name, num, payload) ==
    [op |-> op, repo |-> repo, name |-> name, num |-> num, payload |-> payload]

\* A failed call and the kind of its failure.
Failure(call, reason) == [call |-> call, reason |-> reason]

NoPayload == [key \in {} |-> ""]

\* The call gets a reply that is no error.
Succeeds == UNCHANGED <<failed, failures>>

\* The call is answered that what it adds is already there.
AlreadyExists(call) ==
    /\ failed' = failed \cup {Failure(call, "already-exists")}
    /\ failures' = failures

\* The call fails with an error.
Fails(call, reason) ==
    /\ failures < MaxFailures
    /\ failed' = failed \cup {Failure(call, reason)}
    /\ failures' = failures + 1

MutatingOps ==
    {"createLabel", "updateLabel", "deleteLabel", "updateRepo",
     "linkRepoToProject", "addItemToProject"}

NoSettingsResult == [changes |-> <<>>, applied |-> TRUE]

\* main.ts: the numbers handed to resolveProjects.
ProjectNumbers == IF inputs.syncProjects THEN extractProjectNumbers(repos) ELSE <<>>

\* resolveProjects: unique
ResolveList == Unique(ProjectNumbers)

\* No rate check applied on its own yet.
NoCheck ==
    [pool |-> "none", client |-> FALSE, reply |-> [ok |-> FALSE, core |-> 0, graphql |-> 0],
     outcome |-> CheckOutcome(FALSE, FALSE, 0, 0)]

\* The locals of discovery before it does anything.
NothingDiscovered ==
    /\ allRepos = <<>>
    /\ orgRepos = <<>>
    /\ discovered = <<>>
    /\ validationErrors = <<>>
    /\ nameIdx = 1
    /\ setFailed = ""

\* The local state of the main step before it does anything.
NothingDone ==
    /\ NothingDiscovered
    /\ resolveIdx = 1
    /\ projectCache = [num \in {} |-> [ok |-> FALSE, error |-> ""]]
    /\ i = 0
    /\ results = <<>>
    /\ repoData = NullRepo
    /\ errors = <<>>
    /\ existingLabels = <<>>
    /\ labelResults = <<>>
    /\ k = 1
    /\ settingsResult = NoSettingsResult
    /\ linkStatus = Null
    /\ projectTitle = Null
    /\ page = 1
    /\ pageCount = 0
    /\ items = 0
    /\ itemIdx = 1
    /\ added = 0
    /\ alreadyPresent = 0
    /\ calls = <<>>
    /\ failed = {}

\* The main step from the moment discoverRepos has returned repos.
Init ==
    /\ inputs \in Inputs
    /\ config \in Configs
    /\ repos \in RepoLists
    /\ customProperties = <<>>
    /\ repoNames = <<>>
    /\ pc = "resolve"
    /\ failures = 0
    /\ rateCheck = NoCheck
    /\ remoteLabels = <<>>
    /\ NothingDone

\* ------------------------------------------------------- resolveProjects

\* The cache entry resolveProjects stores for a reply of resolveProject.
CacheEntry(num, reply) ==
    CASE reply = "open" -> [ok |-> TRUE, project |-> ProjectInfo(num, FALSE)]
      [] reply = "closed" -> [ok |-> FALSE, error |-> "Project is closed"]
      [] OTHER -> [ok |-> FALSE, error |-> "resolve failed"]

CacheSet(cache, num, entry) ==
    [key \in DOMAIN cache \cup {num} |-> IF key = num THEN entry ELSE cache[key]]

\* One turn of the loop of resolveProjects: one resolveProject call, its
\* reply mapped to an entry, cache.set.
ResolveProject ==
    /\ pc = "resolve"
    /\ resolveIdx <= Len(ResolveList)
    /\ \E reply \in {"open", "closed", "fail"} :
          LET num == ResolveList[resolveIdx]
          IN  /\ projectCache' = CacheSet(projectCache, num, CacheEntry(num, reply))
              /\ calls' = Append(calls, Call("resolveProject", -1, <<>>, num, NoPayload))
    /\ resolveIdx' = resolveIdx + 1
    /\ UNCHANGED <<runVars, pc, loopVars, repoVars, labelVars, settingsResult,
                   projectVars, backfillVars, failed, failures>>

\* A return of resolveProjects that does not wait for the loop to end.
ResolveDoneEarly ==
    /\ pc = "resolve"
    /\ pc' = "loop"
    /\ UNCHANGED <<runVars, resolveIdx, projectCache, loopVars, repoVars, labelVars,
                   settingsResult, projectVars, backfillVars, calls, failed, failures>>

\* resolveProjects returns the cache; processRepos starts.
ResolveDone ==
    /\ pc = "resolve"
    /\ resolveIdx > Len(ResolveList)
    /\ pc' = "loop"
    /\ UNCHANGED <<runVars, resolveIdx, projectCache, loopVars, repoVars, labelVars,
                   settingsResult, projectVars, backfillVars, calls, failed, failures>>

\* ----------------------------------------------------------- processRepos

\* Effect.sleep of ms milliseconds, while repository idx is in progress.
Delay(idx, ms) == Call("delay", idx, <<>>, ms, NoPayload)

\* What a rate check made while repository idx is in progress adds to the call
\* log: its getRateLimit call, then its pause when it pauses.
RateCheckCalls(idx, outcome) ==
    (IF outcome.called THEN <<Call("getRateLimit", idx, <<>>, 0, NoPayload)>> ELSE <<>>)
      \o (IF outcome.pause > 0 THEN <<Delay(idx, outcome.pause)>> ELSE <<>>)

\* A loop head that makes the rate check before the first repository too.
LoopHeadChecksFirstRepo(idx, reply) ==
    (IF idx % REST_CHECK_INTERVAL = 0
     THEN RateCheckCalls(idx, checkRestRateLimit(TRUE, reply)) ELSE <<>>)
      \o (IF idx > 0 THEN <<Delay(idx, INTER_REPO_DELAY_MS)>> ELSE <<>>)

\* The head of the loop for repository idx: the periodic rate check, then the
\* inter-repository delay.  reply: what getRateLimit answers if it is called.
LoopHeadCalls(idx, reply) ==
    (IF idx > 0 /\ idx % REST_CHECK_INTERVAL = 0
     THEN RateCheckCalls(idx, checkRestRateLimit(TRUE, reply)) ELSE <<>>)
      \o (IF idx > 0 THEN <<Delay(idx, INTER_REPO_DELAY_MS)>> ELSE <<>>)

BeginRepo ==
    /\ pc = "loop"
    /\ i < Len(repos)
    /\ \E reply \in RepliesIf(i > 0 /\ i % REST_CHECK_INTERVAL = 0) :
          calls' = calls \o LoopHeadCalls(i, reply)
    /\ pc' = "getRepo"
    /\ UNCHANGED <<runVars, resolveIdx, projectCache, loopVars, repoVars, labelVars,
                   settingsResult, projectVars, backfillVars, failed, failures>>

\* A return that waits for an index past the length of the list.
ProcessReposReturnsLate ==
    /\ pc = "loop"
    /\ i > Len(repos)
    /\ pc' = "done"
    /\ UNCHANGED <<runVars, resolveIdx, projectCache, loopVars, repoVars, labelVars,
                   settingsResult, projectVars, backfillVars, calls, failed, failures>>

\* processRepos returns results.
ProcessReposReturn ==
    /\ pc = "loop"
    /\ i >= Len(repos)
    /\ pc' = "done"
    /\ UNCHANGED <<runVars, resolveIdx, projectCache, loopVars, repoVars, labelVars,
                   settingsResult, projectVars, backfillVars, calls, failed, failures>>

\* ------------------------------------------------------------ processRepo

Repo == repos[i + 1]

\* An order of the steps with the project step before the settings step.
NextStepProjectFirst(step) ==
    CASE step = "labels" -> "project"
      [] step = "project" -> "settings"
      [] step = "settings" -> "assemble"

\* processRepo: what follows a step: labels, then settings, then project, then
\* the result.
NextStep(step) ==
    CASE step = "labels" -> "settings"
      [] step = "settings" -> "project"
      [] step = "project" -> "assemble"

\* A fetch whose failure leaves no error record.
GetRepoUnrecorded ==
    /\ pc = "getRepo"
    /\ \/ \E settings \in ObservedSettings :
            /\ repoData' = GitHubRepo(settings, Repo.nodeId)
            /\ Succeeds
       \/ /\ repoData' = NullRepo
          /\ Fails(Call("getRepo", i, <<>>, 0, NoPayload), "failed")
    /\ errors' = <<>>
    /\ calls' = Append(calls, Call("getRepo", i, <<>>, 0, NoPayload))
    /\ pc' = "listLabels"
    /\ UNCHANGED <<runVars, resolveIdx, projectCache, loopVars, labelVars,
                   settingsResult, projectVars, backfillVars>>

\* rest.getRepo with its catchAll.
GetRepo ==
    /\ pc = "getRepo"
    /\ \/ \E settings \in ObservedSettings :
            /\ repoData' = GitHubRepo(settings, Repo.nodeId)
            /\ errors' = <<>>
            /\ Succeeds
       \/ /\ repoData' = NullRepo
          /\ errors' = <<[target |-> "repo", operation |-> "get", error |-> "getRepo failed"]>>
          /\ Fails(Call("getRepo", i, <<>>, 0, NoPayload), "failed")
    /\ calls' = Append(calls, Call("getRepo", i, <<>>, 0, NoPayload))
    /\ pc' = "listLabels"
    /\ UNCHANGED <<runVars, resolveIdx, projectCache, loopVars, labelVars,
                   settingsResult, projectVars, backfillVars>>

\* -------------------------------------------------------------- syncLabels

\* How many custom labels the removal loop visits.
RemoveCount(existing) ==
    IF inputs.removeCustomLabels THEN Len(CustomLabels(existing, config.labels)) ELSE 0

\* Loops that end once a label call of the repository has failed.
LabelPcStopOnFailure(kNext, existing) ==
    IF {f \in failed : f.call.op \in {"createLabel", "updateLabel", "deleteLabel"}} # {}
          \/ kNext > Len(config.labels) + RemoveCount(existing)
    THEN NextStep("labels") ELSE "labels"

\* Where syncLabels is once position kNext is reached: still in its loops, or
\* returned to processRepo (whose next step is the settings step).
LabelPc(kNext, existing) ==
    IF kNext > Len(config.labels) + RemoveCount(existing) THEN NextStep("labels") ELSE "labels"

\* A listing whose failure ends syncLabels with no result.
ListLabelsOrGiveUp ==
    /\ pc = "listLabels"
    /\ \/ \E list \in ObservedLabelLists :
            /\ existingLabels' = list
            /\ Succeeds
            /\ pc' = LabelPc(1, list)
       \/ /\ existingLabels' = <<>>
          /\ Fails(Call("listLabels", i, <<>>, 0, NoPayload), "failed")
          /\ pc' = NextStep("labels")
    /\ calls' = Append(calls, Call("listLabels", i, <<>>, 0, NoPayload))
    /\ labelResults' = <<>>
    /\ k' = 1
    /\ UNCHANGED <<runVars, resolveIdx, projectCache, loopVars, repoVars,
                   settingsResult, projectVars, backfillVars>>

\* rest.listLabels with its catchAll: a failure counts as no labels.
ListLabels ==
    /\ pc = "listLabels"
    /\ \/ \E list \in ObservedLabelLists :
            /\ existingLabels' = list
            /\ Succeeds
       \/ /\ existingLabels' = <<>>
          /\ Fails(Call("listLabels", i, <<>>, 0, NoPayload), "failed")
    /\ calls' = Append(calls, Call("listLabels", i, <<>>, 0, NoPayload))
    /\ labelResults' = <<>>
    /\ k' = 1
    /\ pc' = LabelPc(1, existingLabels')
    /\ UNCHANGED <<runVars, resolveIdx, projectCache, loopVars, repoVars,
                   settingsResult, projectVars, backfillVars>>

\* A label call that is made in dry-run too.
LabelCallAlways(op, name) ==
    /\ calls' = Append(calls, Call(op, i, name, 0, NoPayload))
    /\ \/ Succeeds
       \/ Fails(Call(op, i, name, 0, NoPayload), "failed")

\* A mutating label call: skipped in dry-run, else made, and its failure only logged.
LabelCall(op, name) ==
    IF inputs.dryRun
    THEN UNCHANGED <<calls, failed, failures>>
    ELSE /\ calls' = Append(calls, Call(op, i, name, 0, NoPayload))
         /\ \/ Succeeds
            \/ Fails(Call(op, i, name, 0, NoPayload), "failed")

\* The loop over desired labels, no observed match: createLabel.
CreateLabel ==
    /\ pc = "labels"
    /\ k <= Len(config.labels)
    /\ LET desired == config.labels[k]
       IN  /\ FindExisting(existingLabels, desired) = 0
           /\ LabelCall("createLabel", desired.name)
           /\ labelResults' = Append(labelResults, [name |-> desired.name, operation |-> "created"])
    /\ k' = k + 1
    /\ pc' = LabelPc(k + 1, existingLabels)
    /\ UNCHANGED <<runVars, resolveIdx, projectCache, loopVars, repoVars, existingLabels,
                   settingsResult, projectVars, backfillVars>>

\* The loop over desired labels, a match that differs: updateLabel, addressed
\* by the observed name.
UpdateLabel ==
    /\ pc = "labels"
    /\ k <= Len(config.labels)
    /\ LET desired == config.labels[k]
           at == FindExisting(existingLabels, desired)
       IN  /\ at # 0
           /\ LabelOperation(existingLabels, desired) = "updated"
           /\ LabelCall("updateLabel", existingLabels[at].name)
           /\ labelResults' =
                Append(labelResults,
                       [name |-> desired.name, operation |-> "updated",
                        changes |-> LabelChanges(existingLabels[at], desired)])
    /\ k' = k + 1
    /\ pc' = LabelPc(k + 1, existingLabels)
    /\ UNCHANGED <<runVars, resolveIdx, projectCache, loopVars, repoVars, existingLabels,
                   settingsResult, projectVars, backfillVars>>

\* The loop over desired labels, a match that does not differ.
KeepLabel ==
    /\ pc = "labels"
    /\ k <= Len(config.labels)
    /\ LET desired == config.labels[k]
       IN  /\ LabelOperation(existingLabels, desired) = "unchanged"
           /\ labelResults' = Append(labelResults, [name |-> desired.name, operation |-> "unchanged"])
    /\ k' = k + 1
    /\ pc' = LabelPc(k + 1, existingLabels)
    /\ UNCHANGED <<runVars, resolveIdx, projectCache, loopVars, repoVars, existingLabels,
                   settingsResult, projectVars, backfillVars, calls, failed, failures>>

\* The loop over custom labels (removeCustom set): removeLabel.
RemoveLabel ==
    /\ pc = "labels"
    /\ k > Len(config.labels)
    /\ k <= Len(config.labels) + RemoveCount(existingLabels)
    /\ LET labelName == CustomLabels(existingLabels, config.labels)[k - Len(config.labels)]
       IN  /\ LabelCall("deleteLabel", labelName)
           /\ labelResults' = Append(labelResults, [name |-> labelName, operation |-> "removed"])
    /\ k' = k + 1
    /\ pc' = LabelPc(k + 1, existingLabels)
    /\ UNCHANGED <<runVars, resolveIdx, projectCache, loopVars, repoVars, existingLabels,
                   settingsResult, projectVars, backfillVars>>

\* ------------------------------------------------------------ syncSettings

\* processRepo skips syncSettings: the flag is off or the fetch failed.
SkipSettings ==
    /\ pc = "settings"
    /\ ~(inputs.syncSettings /\ repoData # NullRepo)
    /\ settingsResult' = NoSettingsResult
    /\ pc' = NextStep("settings")
    /\ UNCHANGED <<runVars, resolveIdx, projectCache, loopVars, repoVars, labelVars,
                   projectVars, backfillVars, calls, failed, failures>>

\* An applied flag that takes a validation rejection for a success.
AppliedUnlessFailed(reply) == reply # "failed"

\* syncSettings: applied, for a reply of updateRepo.  Both catchAll branches
\* (422 and any other failure) return applied: false.
SettingsApplied(reply) == reply = "ok"

\* A dry run that reports no change records.
DryRunSettingsEmpty(changes) == [changes |-> <<>>, applied |-> FALSE]

\* syncSettings in dry-run with changes: the changes, not applied, no call.
DryRunSettings(changes) == [changes |-> changes, applied |-> FALSE]

\* syncSettings: the diff, then at most one updateRepo call.
SyncSettings ==
    /\ pc = "settings"
    /\ inputs.syncSettings /\ repoData # NullRepo
    /\ LET changes == SettingChanges(config.settings, repoData)
           update == Call("updateRepo", i, <<>>, 0, SettingsToApply(config.settings, repoData))
       IN  IF changes = <<>>
           THEN /\ settingsResult' = [changes |-> <<>>, applied |-> TRUE]
                /\ UNCHANGED <<calls, failed, failures>>
           ELSE IF inputs.dryRun
           THEN /\ settingsResult' = DryRunSettings(changes)
                /\ UNCHANGED <<calls, failed, failures>>
           ELSE /\ calls' = Append(calls, update)
                /\ \E reply \in {"ok", "validation-failed", "failed"} :
                      /\ settingsResult' = [changes |-> changes, applied |-> SettingsApplied(reply)]
                      /\ IF reply = "ok" THEN Succeeds ELSE Fails(update, reply)
    /\ pc' = NextStep("settings")
    /\ UNCHANGED <<runVars, resolveIdx, projectCache, loopVars, repoVars, labelVars,
                   projectVars, backfillVars>>

\* ------------------------------------------------------------- syncProject

\* processRepo skips syncProject: the flag is off or the repository is not tracked.
SkipProject ==
    /\ pc = "project"
    /\ ~(inputs.syncProjects /\ getProjectNumber(Repo) # NoProject)
    /\ pc' = NextStep("project")
    /\ UNCHANGED <<runVars, resolveIdx, projectCache, loopVars, repoVars, labelVars,
                   settingsResult, projectVars, backfillVars, calls, failed, failures>>

EntryOk(cache, num) == num \in DOMAIN cache /\ cache[num].ok

\* syncProject: no entry, or a failed one.
ProjectNotResolved ==
    /\ pc = "project"
    /\ inputs.syncProjects /\ getProjectNumber(Repo) # NoProject
    /\ ~EntryOk(projectCache, getProjectNumber(Repo))
    /\ linkStatus' = "skipped"
    /\ projectTitle' = Null
    /\ pc' = NextStep("project")
    /\ UNCHANGED <<runVars, resolveIdx, projectCache, loopVars, repoVars, labelVars,
                   settingsResult, backfillVars, calls, failed, failures>>

\* A status that takes every failure of the link call for an error.
LinkStatusNoAlready(reply) == IF reply.ok THEN "linked" ELSE "error"

\* linkRepo: the status for a reply of linkRepoToProject.
LinkStatusOf(reply) ==
    IF reply.ok THEN "linked"
    ELSE IF isAlreadyExists(reply.reason) THEN "already"
    ELSE "error"

\* A backfill that runs whatever the link step's status.
RunsBackfillAfterError(status) == ~inputs.skipBackfill

\* syncProject: whether backfillItems runs after the link step.
RunsBackfill(status) == ~inputs.skipBackfill /\ status # "error"

\* syncProject with a resolved entry: linkRepo, then the decision to backfill.
LinkRepo ==
    /\ pc = "project"
    /\ inputs.syncProjects /\ getProjectNumber(Repo) # NoProject
    /\ EntryOk(projectCache, getProjectNumber(Repo))
    /\ LET num == getProjectNumber(Repo)
           project == projectCache[num].project
           \* repoData?.node_id ?? repo.nodeId
           nodeId == IF repoData # NullRepo THEN repoData["node_id"] ELSE Repo.nodeId
           link == Call("linkRepoToProject", i, <<>>, num, [key \in {"repoNodeId"} |-> nodeId])
       IN  /\ projectTitle' = project.title
           /\ IF inputs.dryRun
              THEN /\ linkStatus' = "dry-run"
                   /\ UNCHANGED <<calls, failed, failures>>
              ELSE /\ calls' = Append(calls, link)
                   /\ \E reply \in GraphQLReplies :
                         /\ linkStatus' = LinkStatusOf(reply)
                         /\ CASE reply.ok -> Succeeds
                              [] reply.reason = ReasonAlreadyExists -> AlreadyExists(link)
                              [] OTHER -> Fails(link, "failed")
    /\ pc' = IF RunsBackfill(linkStatus') THEN "backfill" ELSE NextStep("project")
    /\ UNCHANGED <<runVars, resolveIdx, projectCache, loopVars, repoVars, labelVars,
                   settingsResult, backfillVars>>

\* A page head that makes the rate check before every page but the first.
PageHeadChecksEveryPage(reply) ==
    IF pageCount > 0
    THEN RateCheckCalls(i, checkGraphQLRateLimit(TRUE, reply)) ELSE <<>>

\* backfillItems: the periodic secondary rate check before a page.
PageHeadCalls(reply) ==
    IF pageCount > 0 /\ pageCount % GRAPHQL_CHECK_INTERVAL = 0
    THEN RateCheckCalls(i, checkGraphQLRateLimit(TRUE, reply)) ELSE <<>>

\* backfillItems: one listOpenIssues call with its catchAll.  In dry-run the
\* items of the page are counted at once, no call being made for them.
ListOpenIssues ==
    /\ pc = "backfill"
    /\ LET list == Call("listOpenIssues", i, <<>>, page, NoPayload)
       IN  /\ \E reply \in RepliesIf(pageCount > 0 /\ pageCount % GRAPHQL_CHECK_INTERVAL = 0) :
                 calls' = (calls \o PageHeadCalls(reply)) \o <<list>>
           /\ \/ \E n \in PageSizesOf(Repo, page) :
                   /\ items' = n
                   /\ Succeeds
              \/ /\ items' = 0
                 /\ Fails(list, "failed")
    /\ itemIdx' = 1
    /\ IF items' = 0
       THEN /\ pc' = NextStep("project")
            /\ UNCHANGED <<page, pageCount, added>>
       ELSE IF inputs.dryRun
       THEN /\ added' = added + items'
            /\ pageCount' = pageCount + 1
            /\ IF items' < PER_PAGE
               THEN pc' = NextStep("project") /\ page' = page
               ELSE pc' = "backfill" /\ page' = page + 1
       ELSE /\ pc' = "items"
            /\ UNCHANGED <<page, pageCount, added>>
    /\ UNCHANGED <<runVars, resolveIdx, projectCache, loopVars, repoVars, labelVars,
                   settingsResult, projectVars, alreadyPresent>>

\* backfillItems: one addItemToProject call, the counters, the delay; after
\* the last item of the page, the end-of-page bookkeeping.
AddItem ==
    /\ pc = "items"
    /\ itemIdx <= items
    /\ LET add == Call("addItemToProject", i, <<>>, (page - 1) * PER_PAGE + itemIdx, NoPayload)
       IN  /\ calls' = (calls \o <<add>>) \o <<Delay(i, INTER_ITEM_DELAY_MS)>>
           /\ \E reply \in ItemReplies(itemIdx) :
                 /\ added' = IF reply.ok THEN added + 1 ELSE added
                 /\ alreadyPresent' =
                      IF ~reply.ok /\ isAlreadyExists(reply.reason)
                      THEN alreadyPresent + 1 ELSE alreadyPresent
                 /\ CASE reply.ok -> Succeeds
                      [] reply.reason = ReasonAlreadyExists -> AlreadyExists(add)
                      [] OTHER -> Fails(add, "failed")
    /\ IF itemIdx < items
       THEN /\ itemIdx' = itemIdx + 1
            /\ UNCHANGED <<pc, page, pageCount>>
       ELSE /\ itemIdx' = itemIdx
            /\ pageCount' = pageCount + 1
            /\ IF items < PER_PAGE
               THEN pc' = NextStep("project") /\ page' = page
               ELSE pc' = "backfill" /\ page' = page + 1
    /\ UNCHANGED <<runVars, resolveIdx, projectCache, loopVars, repoVars, labelVars,
                   settingsResult, projectVars, items>>

\* ------------------------------------------------- processRepo, the result

RepoSyncResult ==
    [repo |-> Repo.name,
     owner |-> Repo.owner,
     labels |-> labelResults,
     customLabels |-> CustomLabels(existingLabels, config.labels),
     settingChanges |-> settingsResult.changes,
     settingsApplied |-> settingsResult.applied,
     projectNumber |-> getProjectNumber(Repo),
     projectTitle |-> projectTitle,
     projectLinkStatus |-> linkStatus,
     itemsAdded |-> added,
     itemsAlreadyPresent |-> alreadyPresent,
     errors |-> errors,
     success |-> (Len(errors) = 0)]

\* A push that leaves out the result of a repository that had an error.
PushResultIfSucceeded(rs, result) == IF result.success THEN Append(rs, result) ELSE rs

\* processRepos: results.push(result)
PushResult(rs, result) == Append(rs, result)

\* processRepo returns; processRepos pushes the result and moves on.  The
\* locals of processRepo and of what it called are gone.
AssembleResult ==
    /\ pc = "assemble"
    /\ results' = PushResult(results, RepoSyncResult)
    /\ i' = i + 1
    /\ pc' = "loop"
    /\ repoData' = NullRepo
    /\ errors' = <<>>
    /\ existingLabels' = <<>>
    /\ labelResults' = <<>>
    /\ k' = 1
    /\ settingsResult' = NoSettingsResult
    /\ linkStatus' = Null
    /\ projectTitle' = Null
    /\ page' = 1
    /\ pageCount' = 0
    /\ items' = 0
    /\ itemIdx' = 1
    /\ added' = 0
    /\ alreadyPresent' = 0
    /\ failed' = {}
    /\ UNCHANGED <<runVars, resolveIdx, projectCache, calls, failures>>

Next ==
    \/ ResolveProject
    \/ ResolveDone
    \/ BeginRepo
    \/ ProcessReposReturn
    \/ GetRepo
    \/ ListLabels
    \/ CreateLabel
    \/ UpdateLabel
    \/ KeepLabel
    \/ RemoveLabel
    \/ SkipSettings
    \/ SyncSettings
    \/ SkipProject
    \/ ProjectNotResolved
    \/ LinkRepo
    \/ ListOpenIssues
    \/ AddItem
    \/ AssembleResult

Spec == Init /\ [][Next]_vars

\* ----------------------------------------------- the rate checks on their own

\* Every variable of the main step but rateCheck.
mainVars ==
    <<inputs, config, repos, discoveryVars, pc, resolveIdx, projectCache, loopVars, repoVars, labelVars,
      settingsResult, projectVars, backfillVars, calls, failed, failures, remoteLabels>>

\* The flags of a dry run that syncs labels only.
LabelsOnlyInputs(dryRun) ==
    [dryRun |-> dryRun, removeCustomLabels |-> FALSE, syncSettings |-> FALSE,
     syncProjects |-> FALSE, skipBackfill |-> TRUE]

\* No run in progress; the rate checks are applied to inputs drawn from
\* whether the REST client is provided and what getRateLimit answers.
ThrottleInit ==
    /\ inputs = LabelsOnlyInputs(TRUE)
    /\ config \in Configs
    /\ repos = <<>>
    /\ customProperties = <<>>
    /\ repoNames = <<>>
    /\ pc = "throttle"
    /\ failures = 0
    /\ rateCheck = NoCheck
    /\ remoteLabels = <<>>
    /\ NothingDone

CheckRest ==
    /\ pc = "throttle"
    /\ \E client \in BOOLEAN, reply \in RateLimitReplies :
          rateCheck' = [pool |-> "rest", client |-> client, reply |-> reply,
                        outcome |-> checkRestRateLimit(client, reply)]
    /\ UNCHANGED mainVars

CheckGraphQL ==
    /\ pc = "throttle"
    /\ \E client \in BOOLEAN, reply \in RateLimitReplies :
          rateCheck' = [pool |-> "graphql", client |-> client, reply |-> reply,
                        outcome |-> checkGraphQLRateLimit(client, reply)]
    /\ UNCHANGED mainVars

ThrottleNext ==
    \/ CheckRest
    \/ CheckGraphQL

ThrottleSpec == ThrottleInit /\ [][ThrottleNext]_vars

\* ------------------------------------------------ a run from discovery on

\* What discovery leaves alone.
afterDiscoveryVars ==
    <<inputs, config, rateCheck, customProperties, repoNames, resolveIdx, projectCache,
      loopVars, repoVars, labelVars, settingsResult, projectVars, backfillVars,
      failed, failures, remoteLabels>>

\* The flags of a real run that syncs everything.
FullInputs ==
    [dryRun |-> FALSE, removeCustomLabels |-> TRUE, syncSettings |-> TRUE,
     syncProjects |-> TRUE, skipBackfill |-> FALSE]

\* A run from the call of discoverRepos on.  No call the loop makes for a
\* repository fails; what discovery's calls answer is open.
DiscoveryInit ==
    /\ inputs \in {FullInputs, LabelsOnlyInputs(TRUE)}
    /\ config \in Configs
    /\ repos = <<>>
    /\ customProperties \in FilterLists
    /\ repoNames \in NameLists
    /\ pc = "discover"
    /\ failures = MaxFailures
    /\ rateCheck = NoCheck
    /\ remoteLabels = <<>>
    /\ NothingDone

\* The reasons of the DiscoveryErrors.
OrgQueryFailed == "Failed to query org custom properties"
NoneValidated == "None of the specified repos could be validated"
NoneDiscovered == "No repositories discovered"

\* A failed discovery after which the main step goes on with no repository.
DiscoveryFailsSoftly(reason) == pc' = "resolve" /\ setFailed' = ""

\* main.ts: a DiscoveryError ends the pipeline in catchAll, which calls
\* core.setFailed; nothing of the main step follows.
DiscoveryFails(reason) == pc' = "failed" /\ setFailed' = reason

\* An explicit list that fails as soon as one name does not resolve.
ExplicitListFailsOnAnyError(found, errs) == errs # <<>>

\* discoverByExplicitList: discovered.length === 0 && errors.length > 0
ExplicitListFails(found, errs) == found = <<>> /\ errs # <<>>

\* discoverRepos: orgRepos.  discoverByCustomProperties makes one
\* getOrgRepoProperties call when there is a filter, none when there is none.
DiscoverByCustomProperties ==
    /\ pc = "discover"
    /\ IF customProperties = <<>>
       THEN /\ orgRepos' = <<>>
            /\ pc' = "explicit"
            /\ UNCHANGED <<allRepos, calls, setFailed>>
       ELSE /\ calls' = Append(calls, Call("getOrgRepoProperties", -2, <<>>, 0, NoPayload))
            /\ \/ \E reply \in OrgReplies :
                    /\ allRepos' = reply
                    /\ orgRepos' = MatchedRepos(OrgName, reply, customProperties)
                    /\ pc' = "explicit"
                    /\ UNCHANGED setFailed
               \/ /\ DiscoveryFails(OrgQueryFailed)
                  /\ UNCHANGED <<allRepos, orgRepos>>
    /\ UNCHANGED <<afterDiscoveryVars, repos, discovered, validationErrors, nameIdx>>

\* discoverByExplicitList: one turn of the loop over the names, with the
\* getRepo call and its catchAll.
ValidateRepo ==
    /\ pc = "explicit"
    /\ nameIdx <= Len(repoNames)
    /\ LET rawName == repoNames[nameIdx]
           owner == OwnerAndRepo(OrgName, rawName)[1]
           repo == OwnerAndRepo(OrgName, rawName)[2]
       IN  /\ calls' = Append(calls, Call("getRepo", -2, FullName(owner, repo), nameIdx, NoPayload))
           /\ \E reply \in ValidationReplies :
                 IF reply = "found"
                 THEN /\ discovered' = Append(discovered, ValidatedRepo(owner, repo))
                      /\ UNCHANGED validationErrors
                 ELSE /\ validationErrors' =
                           Append(validationErrors, [name |-> FullName(owner, repo), reason |-> reply])
                      /\ UNCHANGED discovered
    /\ nameIdx' = nameIdx + 1
    /\ UNCHANGED <<afterDiscoveryVars, repos, pc, allRepos, orgRepos, setFailed>>

\* discoverByExplicitList returns or fails; when it returns, discoverRepos
\* merges, fails on an empty set and else returns allRepos to main.ts.
MergeAndReturn ==
    /\ pc = "explicit"
    /\ nameIdx > Len(repoNames)
    /\ IF ExplicitListFails(discovered, validationErrors)
       THEN DiscoveryFails(NoneValidated) /\ UNCHANGED repos
       ELSE IF MergedRepos(orgRepos, discovered) = <<>>
       THEN DiscoveryFails(NoneDiscovered) /\ UNCHANGED repos
       ELSE /\ repos' = MergedRepos(orgRepos, discovered)
            /\ pc' = "resolve"
            /\ UNCHANGED setFailed
    /\ UNCHANGED <<afterDiscoveryVars, calls, allRepos, orgRepos, discovered,
                   validationErrors, nameIdx>>

DiscoveryNext ==
    \/ DiscoverByCustomProperties
    \/ ValidateRepo
    \/ MergeAndReturn
    \/ Next

DiscoverySpec == DiscoveryInit /\ [][DiscoveryNext]_vars

\* ------------------------------------------- a run long enough to pace itself

\* MaxPacedRepos repositories no project tracks.
PacedRepos == [n \in 1..MaxPacedRepos |-> DiscoveredRepo(n, NoProps)]

\* A run over PacedRepos that syncs labels only and in which no call made for
\* a repository fails; what getRateLimit answers is open.
PacingInit ==
    /\ inputs \in {LabelsOnlyInputs(TRUE), LabelsOnlyInputs(FALSE)}
    /\ config \in Configs
    /\ repos = PacedRepos
    /\ customProperties = <<>>
    /\ repoNames = <<>>
    /\ pc = "resolve"
    /\ failures = MaxFailures
    /\ rateCheck = NoCheck
    /\ remoteLabels = <<>>
    /\ NothingDone

\* The steps of the main step such a run takes.
PacingNext ==
    \/ ResolveDone
    \/ BeginRepo
    \/ GetRepo
    \/ ListLabels
    \/ CreateLabel
    \/ UpdateLabel
    \/ KeepLabel
    \/ SkipSettings
    \/ SkipProject
    \/ AssembleResult
    \/ ProcessReposReturn

PacingSpec == PacingInit /\ [][PacingNext]_vars

\* --------------------------------------------------------------- reporting

\* Sum of the numbers of a sequence.
Sum(nums) ==
    LET sum[n \in 0..Len(nums)] == IF n = 0 THEN 0 ELSE sum[n - 1] + nums[n]
    IN  sum[Len(nums)]

\* How many label results of the results carry the operation.
CountOperation(rs, operation) ==
    LET Has(label) == label.operation = operation
        InOne(r) == Len(SelectSeq(r.labels, Has))
    IN  Sum([n \in 1..Len(rs) |-> InOne(rs[n])])

\* A count of successes that takes every result for a success.
SucceededAll(rs) == Len(rs)

\* aggregateStats: results.filter((r) => r.success).length
Succeeded(rs) ==
    LET Ok(r) == r.success
    IN  Len(SelectSeq(rs, Ok))

\* aggregateStats
aggregateStats(rs) ==
    LET Failed(r) == ~r.success
        Custom(r) == Len(r.customLabels)
        Changed(r) == Len(r.settingChanges)
        Drift(r) == IF Len(r.settingChanges) > 0 THEN 1 ELSE 0
        Linked(r) == IF r.projectLinkStatus \in {"linked", "dry-run"} THEN 1 ELSE 0
        Already(r) == IF r.projectLinkStatus = "already" THEN 1 ELSE 0
        Added(r) == r.itemsAdded
        Present(r) == r.itemsAlreadyPresent
    IN  [total |-> Len(rs),
         succeeded |-> Succeeded(rs),
         failed |-> Len(SelectSeq(rs, Failed)),
         labels |-> [created |-> CountOperation(rs, "created"),
                     updated |-> CountOperation(rs, "updated"),
                     removed |-> CountOperation(rs, "removed"),
                     unchanged |-> CountOperation(rs, "unchanged"),
                     customCount |-> Sum([n \in 1..Len(rs) |-> Custom(rs[n])])],
         settings |-> [changed |-> Sum([n \in 1..Len(rs) |-> Changed(rs[n])]),
                       reposWithDrift |-> Sum([n \in 1..Len(rs) |-> Drift(rs[n])])],
         projects |-> [linked |-> Sum([n \in 1..Len(rs) |-> Linked(rs[n])]),
                       alreadyLinked |-> Sum([n \in 1..Len(rs) |-> Already(rs[n])]),
                       itemsAdded |-> Sum([n \in 1..Len(rs) |-> Added(rs[n])]),
                       itemsAlreadyPresent |-> Sum([n \in 1..Len(rs) |-> Present(rs[n])])]]

\* main.ts: success in the results output, failedRepos.length === 0
OutputSuccess(rs) ==
    LET Failed(r) == ~r.success
    IN  Len(SelectSeq(rs, Failed)) = 0

\* -------------------------------------------------------------- properties

LabelOps == {"createLabel", "updateLabel", "deleteLabel"}
BackfillOps == {"listOpenIssues", "addItemToProject"}

\* The entries of a call log made for repository idx with an operation in ops.
CallsIn(log, idx, ops) ==
    LET Wanted(c) == c.repo = idx /\ c.op \in ops
    IN  SelectSeq(log, Wanted)

CallsFor(idx, ops) == CallsIn(calls, idx, ops)

\* The failures of the repository in progress among the operations in ops.
FailedIn(ops) == {f \in failed : f.call.op \in ops}

\* processRepo is past the step named: its calls for the repository in
\* progress have all been made.
PastLabels == pc \in {"settings", "project", "backfill", "items", "assemble"}
PastSettings == pc \in {"project", "backfill", "items", "assemble"}

\* C1: processRepos returns exactly one RepoSyncResult per discovered
\* repository, in the order of the input list, whichever remote calls failed:
\* at every moment the results pushed so far are those of the first i
\* repositories, in order, and when processRepos returns there is one per
\* repository.
C1_OneResultPerRepoInOrder ==
    /\ Len(results) = i
    /\ i <= Len(repos)
    /\ \A n \in 1..Len(results) :
          results[n].repo = repos[n].name /\ results[n].owner = repos[n].owner
    /\ pc = "done" => Len(results) = Len(repos)

\* processRepos has returned for two repositories, the first of which could
\* not be fetched.
C1_Witness ==
    /\ pc = "done"
    /\ Len(repos) = 2
    /\ Len(results) = 2
    /\ ~results[1].success
    /\ results[2].success

ErrorOperation(op) ==
    CASE op = "createLabel" -> "create"
      [] op = "updateLabel" -> "update"
      [] op = "deleteLabel" -> "remove"

\* C3: in a run that is not a dry run, a createLabel, updateLabel or
\* deleteLabel call that fails surfaces as an error record of the owning
\* repository's result, whose success flag is then false.  Stated of the
\* result processRepo is about to return.
C3_LabelFailureIsRecorded ==
    (pc = "assemble" /\ ~inputs.dryRun) =>
        \A f \in FailedIn(LabelOps) :
            /\ \E n \in 1..Len(RepoSyncResult.errors) :
                  RepoSyncResult.errors[n].operation = ErrorOperation(f.call.op)
            /\ ~RepoSyncResult.success

\* processRepo is about to return a result that reports success although a
\* label call of the repository failed.
C3_Witness ==
    /\ pc = "assemble"
    /\ ~inputs.dryRun
    /\ FailedIn(LabelOps) # {}
    /\ RepoSyncResult.errors = <<>>
    /\ RepoSyncResult.success

\* The label calls syncLabels has to make for the observed labels `existing`
\* of repository idx, in order: a create or an update per desired label that
\* needs one, then a delete per custom label when removal is asked for.
NeededLabelCalls(idx, existing) ==
    LET plan == [n \in 1..Len(config.labels) |->
                    LET desired == config.labels[n]
                        at == FindExisting(existing, desired)
                    IN  IF at = 0
                        THEN Call("createLabel", idx, desired.name, 0, NoPayload)
                        ELSE IF LabelOperation(existing, desired) = "updated"
                        THEN Call("updateLabel", idx, existing[at].name, 0, NoPayload)
                        ELSE Call("none", idx, <<>>, 0, NoPayload)]
        IsCall(c) == c.op # "none"
        custom == IF inputs.removeCustomLabels
                  THEN CustomLabels(existing, config.labels) ELSE <<>>
    IN  SelectSeq(plan, IsCall)
          \o [n \in 1..Len(custom) |-> Call("deleteLabel", idx, custom[n], 0, NoPayload)]

\* C4: a failed create, update or delete call for one label does not block
\* the others: once syncLabels has returned, the label calls made for the
\* repository are exactly the needed ones, whether or not some of them
\* failed, there is a result per label visited, and by the time processRepo
\* assembles its result the settings step and the project step have run.
C4_LabelFailureBlocksNothing ==
    (PastLabels /\ ~inputs.dryRun) =>
        /\ CallsFor(i, LabelOps) = NeededLabelCalls(i, existingLabels)
        /\ Len(labelResults) = Len(config.labels) + RemoveCount(existingLabels)
        /\ pc = "assemble" =>
              /\ (inputs.syncSettings /\ repoData # NullRepo
                    /\ SettingChanges(config.settings, repoData) # <<>>)
                    => Len(CallsFor(i, {"updateRepo"})) = 1
              /\ (inputs.syncProjects /\ getProjectNumber(Repo) # NoProject)
                    => linkStatus # Null

\* The first of three label steps failed (an update), the removal of the
\* custom label was still called, and the settings update and the project
\* link were made afterwards.
C4_Witness ==
    /\ pc = "assemble"
    /\ ~inputs.dryRun
    /\ Len(CallsFor(i, LabelOps)) = 2
    /\ Failure(CallsFor(i, LabelOps)[1], "failed") \in failed
    /\ CallsFor(i, LabelOps)[2].op = "deleteLabel"
    /\ Len(CallsFor(i, {"updateRepo"})) = 1
    /\ linkStatus = "linked"

RepoOps ==
    {"getRepo", "listLabels", "updateRepo", "linkRepoToProject"} \cup LabelOps \cup BackfillOps

\* The place of an operation in the order of the steps of one repository.
StepRank(op) ==
    CASE op = "getRepo" -> 1
      [] op = "listLabels" -> 2
      [] op \in LabelOps -> 3
      [] op = "updateRepo" -> 4
      [] op = "linkRepoToProject" -> 5
      [] op \in BackfillOps -> 6

\* C5: remote calls follow a fixed order.  Each call made for a repository
\* is followed by a call for the same repository or for one later in
\* discovery order, so the calls of repository i all come before those of
\* repository i+1 and no two repositories' calls interleave; and within one
\* repository each call is followed by one of the same step or of a later
\* step: the fetch, the label listing, the label mutations, the settings
\* update, the project link, the backfill.
C5_CallsInFixedOrder ==
    LET ForRepo(c) == c.repo >= 0
        IsStep(c) == c.repo >= 0 /\ c.op \in RepoOps
        made == SelectSeq(calls, ForRepo)
        steps == SelectSeq(calls, IsStep)
    IN  /\ \A n \in 1..Len(made) : made[n].repo < Len(repos)
        /\ \A n \in 1..(Len(made) - 1) : made[n].repo <= made[n + 1].repo
        /\ \A n \in 1..(Len(steps) - 1) :
              steps[n].repo = steps[n + 1].repo
                 => StepRank(steps[n].op) <= StepRank(steps[n + 1].op)

\* A finished run over two repositories, each of which had a fetch, a label
\* listing, a label mutation, a settings update, a link and an added item.
C5_Witness ==
    /\ pc = "done"
    /\ Len(repos) = 2
    /\ \A idx \in {0, 1} :
          \A ops \in {{"getRepo"}, {"listLabels"}, LabelOps, {"updateRepo"},
                      {"linkRepoToProject"}, {"addItemToProject"}} :
              CallsFor(idx, ops) # <<>>

\* C6: all resolveProject calls of a run complete, and the cache holds an
\* entry for every requested number, before the first repository is
\* processed: the resolveProject calls are the first calls of the run, none
\* follows a call of another kind, so no link or add call precedes one.
C6_ResolutionBeforeRepositories ==
    /\ pc # "resolve" =>
          LET requested == ResolveList
          IN  /\ DOMAIN projectCache = Range(requested)
              /\ Len(CallsFor(-1, {"resolveProject"})) = Len(requested)
    /\ pc = "resolve" => i = 0 /\ results = <<>>
    /\ \A n \in 2..Len(calls) :
          calls[n].op = "resolveProject" => calls[n - 1].op = "resolveProject"

\* A finished run that resolved two projects and then linked a repository
\* and added an item.
C6_Witness ==
    /\ pc = "done"
    /\ Len(CallsFor(-1, {"resolveProject"})) = 2
    /\ \E idx \in {0, 1} :
          /\ CallsFor(idx, {"linkRepoToProject"}) # <<>>
          /\ CallsFor(idx, {"addItemToProject"}) # <<>>

\* How many resolveProject calls a call log holds for project number num.
ResolveCount(log, num) ==
    LET Wanted(c) == c.op = "resolveProject" /\ c.num = num
    IN  Len(SelectSeq(log, Wanted))

\* C7: within one run resolveProject is called at most once per distinct
\* project number, however many repositories reference it; a cache key, once
\* written, is never written again; and once the repositories are being
\* processed the cache is not written and resolveProject is not called.
C7_ResolveOncePerNumber ==
    [][ /\ \A n \in 1..Len(calls') :
              calls'[n].op = "resolveProject" => ResolveCount(calls', calls'[n].num) = 1
        /\ \A key \in DOMAIN projectCache :
              key \in DOMAIN projectCache' /\ projectCache'[key] = projectCache[key]
        /\ pc # "resolve" =>
              /\ projectCache' = projectCache
              /\ CallsIn(calls', -1, {"resolveProject"}) = CallsIn(calls, -1, {"resolveProject"})
      ]_vars

\* Two repositories that reference project 1 were both linked to it after a
\* single resolveProject call.
C7_Witness ==
    /\ pc = "done"
    /\ Len(repos) = 2
    /\ getProjectNumber(repos[1]) = 1 /\ getProjectNumber(repos[2]) = 1
    /\ ResolveCount(calls, 1) = 1
    /\ results[1].projectLinkStatus = "linked"
    /\ results[2].projectLinkStatus = "linked"

\* C8: the link status of syncProject is a function of the cache entry, the
\* dry-run flag and the outcome of the link call.  "skipped", with no
\* link, list or add call, when the project number has no resolved entry;
\* else "dry-run" with no link call in a dry run; else one link call and
\* "linked" when it succeeds, "already" when it is answered that the link
\* already exists, "error" for another failure.  "already" adds no error
\* record, so the result's success is that of the fetch.  No link call is
\* ever made for a project without a resolved entry.
C8_LinkStatusFunction ==
    /\ linkStatus # Null =>
          LET num == getProjectNumber(Repo)
              links == CallsFor(i, {"linkRepoToProject"})
          IN  /\ ~EntryOk(projectCache, num) =>
                    /\ linkStatus = "skipped"
                    /\ links = <<>>
                    /\ CallsFor(i, BackfillOps) = <<>>
              /\ (EntryOk(projectCache, num) /\ inputs.dryRun) =>
                    linkStatus = "dry-run" /\ links = <<>>
              /\ (EntryOk(projectCache, num) /\ ~inputs.dryRun) =>
                    /\ Len(links) = 1
                    /\ links[1].num = num
                    /\ linkStatus =
                          (IF Failure(links[1], "already-exists") \in failed THEN "already"
                           ELSE IF Failure(links[1], "failed") \in failed THEN "error"
                           ELSE "linked")
              /\ linkStatus = "already" =>
                    /\ \A n \in 1..Len(RepoSyncResult.errors) :
                          RepoSyncResult.errors[n].operation = "get"
                    /\ RepoSyncResult.success = (FailedIn({"getRepo"}) = {})
    /\ \A n \in 1..Len(calls) :
          calls[n].op = "linkRepoToProject" => EntryOk(projectCache, calls[n].num)

\* The link call was answered "already exists" and processRepo is about to
\* return a successful result with status "already".
C8_Witness ==
    /\ pc = "assemble"
    /\ linkStatus = "already"
    /\ Failure(CallsFor(i, {"linkRepoToProject"})[1], "already-exists") \in failed
    /\ RepoSyncResult.errors = <<>>
    /\ RepoSyncResult.success

\* The project step's outcome for repository idx: from its result once
\* pushed, from the step's variables while it is in progress.
StatusOf(idx) == IF idx < Len(results) THEN results[idx + 1].projectLinkStatus ELSE linkStatus
AddedOf(idx) == IF idx < Len(results) THEN results[idx + 1].itemsAdded ELSE added
PresentOf(idx) == IF idx < Len(results) THEN results[idx + 1].itemsAlreadyPresent ELSE alreadyPresent

\* C9: backfill runs for a repository only when its project's cache entry
\* is resolved, skip-backfill is off and the link status is not "error";
\* when the status is "error" or skip-backfill is on, no listOpenIssues or
\* addItemToProject call is made for the repository and both counters are 0.
C9_BackfillOnlyWhenLinked ==
    \A idx \in 0..(Len(repos) - 1) :
        idx <= i =>
            /\ CallsFor(idx, BackfillOps) # <<>> =>
                  /\ inputs.syncProjects
                  /\ EntryOk(projectCache, getProjectNumber(repos[idx + 1]))
                  /\ ~inputs.skipBackfill
                  /\ StatusOf(idx) \in {"linked", "already", "dry-run"}
            /\ (StatusOf(idx) = "error" \/ inputs.skipBackfill) =>
                  /\ CallsFor(idx, BackfillOps) = <<>>
                  /\ AddedOf(idx) = 0
                  /\ PresentOf(idx) = 0

\* Of two repositories on resolved projects, the first one's link failed and
\* it was not backfilled, the second was linked and had an item added.
C9_Witness ==
    /\ pc = "done"
    /\ Len(repos) = 2
    /\ ~inputs.skipBackfill
    /\ results[1].projectLinkStatus = "error"
    /\ CallsFor(0, BackfillOps) = <<>>
    /\ results[2].projectLinkStatus = "linked"
    /\ results[2].itemsAdded = 1

\* The whitelisted keys the desired settings give with a value other than the
\* observed one.
DriftSet ==
    {key \in Range(SYNCABLE_KEYS) :
        key \in DOMAIN config.settings /\ repoData[key] # config.settings[key]}

\* C10: the change list and the update payload of syncSettings hold exactly
\* the whitelisted keys that the desired settings give and whose observed
\* value differs, each once, with the desired value.  With no such key no
\* updateRepo call is made and the result is no changes, applied; with some,
\* and dry-run off, exactly one updateRepo call carries exactly those keys.
C10_SettingsDelta ==
    (PastSettings /\ inputs.syncSettings /\ repoData # NullRepo) =>
        LET changes == settingsResult.changes
            updates == CallsFor(i, {"updateRepo"})
        IN  /\ {changes[n].key : n \in 1..Len(changes)} = DriftSet
            /\ Len(changes) = Cardinality(DriftSet)
            /\ \A n \in 1..Len(changes) :
                  /\ changes[n].to = config.settings[changes[n].key]
                  /\ changes[n].from = repoData[changes[n].key]
            /\ DriftSet = {} =>
                  updates = <<>> /\ settingsResult = [changes |-> <<>>, applied |-> TRUE]
            /\ (DriftSet # {} /\ inputs.dryRun) => updates = <<>>
            /\ (DriftSet # {} /\ ~inputs.dryRun) =>
                  /\ Len(updates) = 1
                  /\ DOMAIN updates[1].payload = DriftSet
                  /\ \A key \in DriftSet : updates[1].payload[key] = config.settings[key]

\* The desired settings give three keys, the observed repository differs on
\* two of them, and the one update call carried those two.
C10_Witness ==
    /\ pc = "assemble"
    /\ ~inputs.dryRun
    /\ "has_issues" \in DOMAIN config.settings
    /\ Len(CallsFor(i, {"updateRepo"})) = 1
    /\ DOMAIN CallsFor(i, {"updateRepo"})[1].payload = {"has_wiki", "squash_merge_commit_title"}
    /\ settingsResult.applied

\* C11: when the updateRepo call fails, with a validation rejection (422) or
\* otherwise, syncSettings still returns the detected changes with applied
\* false; the failure is not escalated, so the project step follows; the
\* failure adds no error record, so a validation rejection is not counted as
\* an error.  applied is true only when the call succeeded or there was
\* nothing to change.
C11_SettingsFailureIsSoft ==
    (PastSettings /\ inputs.syncSettings /\ repoData # NullRepo) =>
        LET updates == CallsFor(i, {"updateRepo"})
            fails == FailedIn({"updateRepo"})
        IN  /\ fails # {} =>
                  /\ settingsResult.changes = SettingChanges(config.settings, repoData)
                  /\ settingsResult.changes # <<>>
                  /\ ~settingsResult.applied
                  /\ \A n \in 1..Len(errors) : errors[n].operation = "get"
                  /\ pc = "assemble" =>
                        ((inputs.syncProjects /\ getProjectNumber(Repo) # NoProject)
                            => linkStatus # Null)
            /\ settingsResult.applied <=>
                  (settingsResult.changes = <<>> \/ (Len(updates) = 1 /\ fails = {}))

\* The update was rejected with a 422; processRepo then linked the project
\* and is about to return the changes, not applied, in a successful result.
C11_Witness ==
    /\ pc = "assemble"
    /\ \E f \in FailedIn({"updateRepo"}) : f.reason = "validation-failed"
    /\ Len(settingsResult.changes) = 2
    /\ ~settingsResult.applied
    /\ linkStatus = "linked"
    /\ RepoSyncResult.success

\* C12: in a run that is not a dry run, a project link that ends with status
\* "error" and an addItemToProject call that fails are each recorded into the
\* errors of the owning repository's result, whose success flag is then
\* false.  Stated of the result processRepo is about to return.
C12_ProjectFailureIsRecorded ==
    (pc = "assemble" /\ ~inputs.dryRun) =>
        /\ linkStatus = "error" =>
              /\ \E n \in 1..Len(RepoSyncResult.errors) :
                    RepoSyncResult.errors[n].operation = "link"
              /\ ~RepoSyncResult.success
        /\ \A f \in FailedIn({"addItemToProject"}) :
              f.reason = "failed" =>
                  /\ \E n \in 1..Len(RepoSyncResult.errors) :
                        RepoSyncResult.errors[n].operation = "backfill"
                  /\ ~RepoSyncResult.success

\* processRepo is about to return a result that reports success although the
\* link call or an add-to-project call of the repository failed.
C12_Witness ==
    /\ pc = "assemble"
    /\ ~inputs.dryRun
    /\ \/ linkStatus = "error"
       \/ \E f \in FailedIn({"addItemToProject"}) : f.reason = "failed"
    /\ RepoSyncResult.errors = <<>>
    /\ RepoSyncResult.success

\* What syncLabels reports for the observed labels `existing`, as pairs of
\* name and operation: an operation per desired label, then a removal per
\* custom label when removal is asked for.  The dry-run flag is no input.
ExpectedLabelOps(existing) ==
    [n \in 1..Len(config.labels) |->
        <<config.labels[n].name, LabelOperation(existing, config.labels[n])>>]
      \o (IF inputs.removeCustomLabels
          THEN LET custom == CustomLabels(existing, config.labels)
               IN  [n \in 1..Len(custom) |-> <<custom[n], "removed">>]
          ELSE <<>>)

\* C13: a dry run and a real run whose calls all succeed report the same
\* label operations (name and operation), custom labels and settings change
\* records for the same config, flags and observed state.  Stated as: in a run
\* without a failing call, these parts of a repository's result are the
\* values of expressions over the config, the other flags and the observed
\* labels and settings in which the dry-run flag does not occur; applied is
\* false exactly in a dry run with changes, the link status is "dry-run"
\* exactly in a dry run, and the backfill counts the observed items in both.
C13_DryRunReportsTheSameChanges ==
    /\ (PastLabels /\ failed = {}) =>
          /\ [n \in 1..Len(labelResults) |->
                 <<labelResults[n].name, labelResults[n].operation>>]
                = ExpectedLabelOps(existingLabels)
          /\ RepoSyncResult.customLabels = CustomLabels(existingLabels, config.labels)
    /\ (PastSettings /\ failed = {}) =>
          /\ settingsResult.changes =
                (IF inputs.syncSettings /\ repoData # NullRepo
                 THEN SettingChanges(config.settings, repoData) ELSE <<>>)
          /\ settingsResult.applied <=> ~(inputs.dryRun /\ settingsResult.changes # <<>>)
    /\ (pc = "assemble" /\ failed = {}) =>
          /\ linkStatus = "dry-run" => inputs.dryRun
          /\ linkStatus = "linked" => ~inputs.dryRun
          /\ linkStatus \in {"dry-run", "linked"} =>
                /\ alreadyPresent = 0
                /\ added = (IF inputs.skipBackfill THEN 0 ELSE items)

\* A dry run is about to return a repository's result with a label to
\* update, a label to remove, two settings changes not applied, the link
\* status "dry-run" and one item counted, without a call that changes
\* anything.
C13_Witness ==
    /\ pc = "assemble"
    /\ inputs.dryRun
    /\ failed = {}
    /\ \E n \in 1..Len(labelResults) : labelResults[n].operation = "updated"
    /\ \E n \in 1..Len(labelResults) : labelResults[n].operation = "removed"
    /\ Len(settingsResult.changes) = 2
    /\ ~settingsResult.applied
    /\ linkStatus = "dry-run"
    /\ added = 1
    /\ CallsFor(i, MutatingOps) = <<>>

\* C14: with the client provided and getRateLimit answering, checkRestRateLimit
\* pauses, for 60 seconds, exactly when the core pool's remaining count is
\* below 50, warns without pausing exactly when it is from 50 to 99, and does
\* neither from 100 on; checkGraphQLRateLimit pauses, for 30 seconds, exactly
\* when the graphql pool's remaining count is below 100.  Each returns the
\* remaining count of its own pool, whatever the other pool's count is.
C14_RateCheckThresholds ==
    (rateCheck.pool # "none" /\ rateCheck.client /\ rateCheck.reply.ok) =>
        LET o == rateCheck.outcome
        IN  /\ o.called
            /\ rateCheck.pool = "rest" =>
                  LET remaining == rateCheck.reply.core
                  IN  /\ o.pause = (IF remaining < 50 THEN 60000 ELSE 0)
                      /\ (o.warned /\ o.pause = 0) <=> (50 <= remaining /\ remaining < 100)
                      /\ remaining >= 100 => (~o.warned /\ o.pause = 0)
                      /\ o.value = remaining
            /\ rateCheck.pool = "graphql" =>
                  LET remaining == rateCheck.reply.graphql
                  IN  /\ o.pause = (IF remaining < 100 THEN 30000 ELSE 0)
                      /\ o.value = remaining

\* The primary check read 49 in the core pool while the graphql pool had
\* 5000: it paused for 60 seconds and returned 49.
C14_Witness ==
    /\ rateCheck.pool = "rest"
    /\ rateCheck.client
    /\ rateCheck.reply = [ok |-> TRUE, core |-> 49, graphql |-> 5000]
    /\ rateCheck.outcome.pause = 60000
    /\ rateCheck.outcome.value = 49

\* C15: when the REST client is not provided, or getRateLimit fails, both
\* rate checks return Number.MAX_SAFE_INTEGER without pausing, warning or
\* failing; getRateLimit is called exactly when the client is provided.
C15_RateCheckNeverFails ==
    (rateCheck.pool # "none" /\ (~rateCheck.client \/ ~rateCheck.reply.ok)) =>
        /\ rateCheck.outcome.value = MAX_SAFE_INTEGER
        /\ rateCheck.outcome.pause = 0
        /\ ~rateCheck.outcome.warned
        /\ ~rateCheck.outcome.failed
        /\ rateCheck.outcome.called <=> rateCheck.client

\* The secondary check's getRateLimit call failed: no pause, the greatest
\* number returned.
C15_Witness ==
    /\ rateCheck.pool = "graphql"
    /\ rateCheck.client
    /\ ~rateCheck.reply.ok
    /\ rateCheck.outcome.called
    /\ rateCheck.outcome.pause = 0
    /\ rateCheck.outcome.value = MAX_SAFE_INTEGER

\* The loop head of the repository at index idx has run.
Started(idx) == idx < i \/ (idx = i /\ pc \notin {"resolve", "loop", "done"})

\* C16: in processRepos the primary rate check is made for the repository at
\* 0-based index idx exactly when idx > 0 and idx is a multiple of 10; the
\* inter-repository delay of 1000 ms is made for every repository but the
\* first; the rate check comes before the delay and both come before every
\* remote call made for that repository.
C16_PacingBeforeEachRepository ==
    \A idx \in 0..(Len(repos) - 1) :
        LET ForRepo(c) == c.repo = idx
            s == SelectSeq(calls, ForRepo)
            checks == {n \in 1..Len(s) : s[n].op = "getRateLimit"}
            gaps == {n \in 1..Len(s) : s[n].op = "delay" /\ s[n].num = 1000}
            remote == {n \in 1..Len(s) : s[n].op \notin {"getRateLimit", "delay"}}
        IN  IF ~Started(idx) THEN s = <<>>
            ELSE /\ Cardinality(checks) = (IF idx > 0 /\ idx % 10 = 0 THEN 1 ELSE 0)
                 /\ Cardinality(gaps) = (IF idx > 0 THEN 1 ELSE 0)
                 /\ \A a \in checks, b \in gaps : a < b
                 /\ \A a \in checks \cup gaps, b \in remote : a < b
                 /\ (idx < i \/ pc # "getRepo") => remote # {}

\* The eleventh repository (index 10) has been fetched after a rate check
\* that paused for 60 seconds and the inter-repository delay.
C16_Witness ==
    /\ i = 10
    /\ pc = "listLabels"
    /\ LET ForRepo(c) == c.repo = 10
           s == SelectSeq(calls, ForRepo)
       IN  /\ Len(s) = 4
           /\ s[1].op = "getRateLimit"
           /\ s[2].op = "delay" /\ s[2].num = 60000
           /\ s[3].op = "delay" /\ s[3].num = 1000
           /\ s[4].op = "getRepo"

\* discoverRepos has returned a list to the main step.
Discovered == pc \notin {"discover", "explicit", "failed"}

\* The full name compared ignoring case.
NameKey(repo) == ToLowerCase(repo.fullName)

\* C17: the list discoverRepos returns has no two entries whose full names are
\* equal ignoring case; it is the union of what the two modes found; a
\* repository both modes found is there once, with the custom properties the
\* attribute-filtered mode found for it.
C17_MergedListHasNoDuplicates ==
    Discovered =>
        /\ \A a, b \in 1..Len(repos) : a # b => NameKey(repos[a]) # NameKey(repos[b])
        /\ \A n \in 1..Len(orgRepos) :
              \E at \in 1..Len(repos) :
                  /\ NameKey(repos[at]) = NameKey(orgRepos[n])
                  /\ repos[at].customProperties = orgRepos[n].customProperties
        /\ \A n \in 1..Len(discovered) :
              \E at \in 1..Len(repos) : NameKey(repos[at]) = NameKey(discovered[n])
        /\ \A at \in 1..Len(repos) :
              \/ \E n \in 1..Len(orgRepos) : NameKey(orgRepos[n]) = NameKey(repos[at])
              \/ \E n \in 1..Len(discovered) : NameKey(discovered[n]) = NameKey(repos[at])

\* Both modes found lab (the list as "Lab") and feed: the list returned has
\* two entries, and the one for lab carries the project number the
\* attribute-filtered mode found.
C17_Witness ==
    /\ pc = "resolve"
    /\ Len(orgRepos) = 2
    /\ Len(discovered) = 2
    /\ discovered[1].fullName = FullName(OrgName, NameLabCased)
    /\ Len(repos) = 2
    /\ repos[1].fullName = FullName(OrgName, NameLabCased)
    /\ getProjectNumber(repos[1]) = 1

\* The claim's test for keeping a repository: every filter has a property of
\* the repository with the same name ignoring case and a value, not null,
\* that is the same ignoring case.
KeptByFilters(repo, filters) ==
    \A f \in 1..Len(filters) :
        \E p \in 1..Len(repo.properties) :
            /\ ToLowerCase(repo.properties[p].property_name) = ToLowerCase(filters[f].key)
            /\ ~repo.properties[p].value.isNull
            /\ ToLowerCase(repo.properties[p].value.text) = ToLowerCase(filters[f].value)

\* C18: discoverByCustomProperties keeps a repository exactly when, for every
\* filter, it has a property whose name equals the filter's key ignoring case
\* and whose value equals the filter's value ignoring case; a repository
\* whose value for a filtered key is missing or null is not kept.
C18_FiltersAreConjunctive ==
    (pc # "discover" /\ customProperties # <<>>) =>
        LET Kept(repo) == KeptByFilters(repo, customProperties)
            kept == SelectSeq(allRepos, Kept)
        IN  /\ [n \in 1..Len(orgRepos) |-> orgRepos[n].fullName]
                 = [n \in 1..Len(kept) |-> kept[n].repository_full_name]
            /\ \A r \in 1..Len(allRepos), f \in 1..Len(customProperties) :
                  (\A p \in 1..Len(allRepos[r].properties) :
                      (ToLowerCase(allRepos[r].properties[p].property_name)
                          = ToLowerCase(customProperties[f].key))
                        => allRepos[r].properties[p].value.isNull)
                    => \A n \in 1..Len(orgRepos) :
                          orgRepos[n].fullName # allRepos[r].repository_full_name

\* Two filters against bed (no tag), flag (another tag) and feed (sub null):
\* nothing kept; against lab and feed: lab kept, by values of another case.
C18_Witness ==
    /\ Len(customProperties) = 2
    /\ allRepos = <<OrgLab, OrgFeed>>
    /\ Len(orgRepos) = 1
    /\ orgRepos[1].fullName = FullName(OrgName, NameLab)

\* The calls discovery has made to validate the names listed.
ValidationCalls ==
    LET IsValidation(c) == c.op = "getRepo" /\ c.repo = -2
    IN  SelectSeq(calls, IsValidation)

\* The owner/name asked for, for each name listed.
Requested ==
    [n \in 1..Len(repoNames) |->
        FullName(OwnerAndRepo(OrgName, repoNames[n])[1], OwnerAndRepo(OrgName, repoNames[n])[2])]

\* The entries of seq at the positions in keep, in order.
Pick(seq, keep) ==
    LET Kept(n) == n \in keep
        idx == SelectSeq([n \in 1..Len(seq) |-> n], Kept)
    IN  [n \in 1..Len(idx) |-> seq[idx[n]]]

\* C19: discoverByExplicitList makes one getRepo call per listed name, in list
\* order, going on after a failure; what it returns are the repositories that
\* resolved, in list order; it fails exactly when at least one name was
\* listed and none resolved.
C19_ExplicitListValidatesEveryName ==
    /\ Len(ValidationCalls) = nameIdx - 1
    /\ \A n \in 1..Len(ValidationCalls) :
          ValidationCalls[n].name = Requested[n] /\ ValidationCalls[n].num = n
    /\ \E ok \in SUBSET (1..(nameIdx - 1)) :
          /\ [n \in 1..Len(discovered) |-> discovered[n].fullName]
                = Pick(SubSeq(Requested, 1, nameIdx - 1), ok)
          /\ [n \in 1..Len(validationErrors) |-> validationErrors[n].name]
                = Pick(SubSeq(Requested, 1, nameIdx - 1), (1..(nameIdx - 1)) \ ok)
    /\ (pc \notin {"discover", "explicit"} /\ setFailed # OrgQueryFailed) =>
          /\ nameIdx = Len(repoNames) + 1
          /\ (setFailed = NoneValidated) <=> (Len(repoNames) >= 1 /\ discovered = <<>>)

\* Of two names listed the first was not found and the second resolved:
\* two calls, one repository returned, no failure.
C19_Witness ==
    /\ pc = "resolve"
    /\ Len(repoNames) = 2
    /\ Len(ValidationCalls) = 2
    /\ Len(validationErrors) = 1
    /\ validationErrors[1].name = Requested[1]
    /\ Len(discovered) = 1
    /\ discovered[1].fullName = Requested[2]
    /\ setFailed = ""

\* C20: a discovery whose merged set is empty, the case of no filter and no
\* list (no remote call at all) included, ends in a discovery error and the
\* run marked failed: resolveProject is not called, the repository loop is
\* not entered and no call is made that changes anything.
C20_EmptyDiscoveryFailsTheRun ==
    /\ (pc \notin {"discover", "explicit"} /\ MergedRepos(orgRepos, discovered) = <<>>) =>
          /\ pc = "failed"
          /\ setFailed \in {OrgQueryFailed, NoneValidated, NoneDiscovered}
          /\ repos = <<>>
          /\ i = 0
          /\ results = <<>>
          /\ \A n \in 1..Len(calls) :
                /\ calls[n].repo = -2
                /\ calls[n].op \in {"getOrgRepoProperties", "getRepo"}
    /\ (customProperties = <<>> /\ repoNames = <<>>) => calls = <<>>
    /\ setFailed # "" <=> pc = "failed"

\* The filters matched none of the repositories the organisation has and no
\* name was listed: the run is marked failed after the one discovery call.
C20_Witness ==
    /\ pc = "failed"
    /\ setFailed = NoneDiscovered
    /\ Len(allRepos) = 3
    /\ orgRepos = <<>>
    /\ repoNames = <<>>
    /\ Len(calls) = 1

\* C21: for the results processRepos has pushed, aggregateStats yields
\* total = number of results = succeeded + failed, and created + updated +
\* removed + unchanged = the number of label results of all repositories; the
\* success of the results output is true exactly when every result has an
\* empty errors list.
C21_StatsAddUp ==
    LET stats == aggregateStats(results)
        Labels(r) == Len(r.labels)
    IN  /\ stats.total = Len(results)
        /\ stats.total = stats.succeeded + stats.failed
        /\ stats.labels.created + stats.labels.updated + stats.labels.removed
              + stats.labels.unchanged
                  = Sum([n \in 1..Len(results) |-> Labels(results[n])])
        /\ OutputSuccess(results) <=> \A n \in 1..Len(results) : results[n].errors = <<>>

\* processRepos has returned two results, one of them with an error; the
\* label results of both add up to five.
C21_Witness ==
    /\ pc = "done"
    /\ aggregateStats(results).total = 2
    /\ aggregateStats(results).succeeded = 1
    /\ aggregateStats(results).failed = 1
    /\ aggregateStats(results).labels.created = 2
    /\ aggregateStats(results).labels.removed = 1
    /\ ~OutputSuccess(results)

\* ------------------------------------------ syncLabels, pass after pass

\* How many labels a repository has at most before the first pass.
MaxObserved == 2

\* How many passes of syncLabels are followed.
MaxPasses == 2

\* GitHubLabel values: a name in some casing, a description (null, empty or
\* not), a colour in some casing.
RemoteLabelValues ==
    [name : {NameBug, NameBugCased, NameFeat, NameStale},
     description : {Null, "", "Bug report"},
     color : {ColorRed, ColorRedUpper, ColorBlue}]

\* The remote holds no two labels whose names are equal but for their case.
DistinctNames(list) ==
    \A a, b \in 1..Len(list) :
        a # b => ToLowerCase(list[a].name) # ToLowerCase(list[b].name)

\* The lists of labels a repository can have.
RemoteLabelLists ==
    {list \in UNION {[1..n -> RemoteLabelValues] : n \in 0..MaxObserved} : DistinctNames(list)}

\* Desired label lists, their lowercased names distinct.
DesiredLists ==
    { <<LabelBug, LabelFeat>>,
      <<LabelFeat>>,
      <<[name |-> NameBugCased, description |-> "", color |-> ColorRedUpper], LabelFeat>> }

\* A label call: its operation, the name it addresses and the label it sends.
LabelRequest(op, name, label) == [op |-> op, name |-> name, label |-> label]

\* syncLabels as a whole for one repository whose calls all succeed: the
\* listed labels are compared with the desired ones in order, then the custom
\* labels are removed when removal is asked for.
syncLabels(existing, desiredLabels, dryRun, removeCustom) ==
    LET customLabels == CustomLabels(existing, desiredLabels)
        removed == IF removeCustom THEN customLabels ELSE <<>>
        Result(desired) ==
            LET at == FindExisting(existing, desired)
            IN  IF at = 0 THEN [name |-> desired.name, operation |-> "created"]
                ELSE IF LabelOperation(existing, desired) = "updated"
                THEN [name |-> desired.name, operation |-> "updated",
                      changes |-> LabelChanges(existing[at], desired)]
                ELSE [name |-> desired.name, operation |-> "unchanged"]
        Request(desired) ==
            LET at == FindExisting(existing, desired)
            IN  IF at = 0 THEN LabelRequest("createLabel", desired.name, desired)
                ELSE IF LabelOperation(existing, desired) = "updated"
                THEN LabelRequest("updateLabel", existing[at].name, desired)
                ELSE LabelRequest("none", desired.name, desired)
        IsCall(request) == request.op # "none" /\ ~dryRun
    IN  [results |->
            [n \in 1..Len(desiredLabels) |-> Result(desiredLabels[n])]
              \o [n \in 1..Len(removed) |-> [name |-> removed[n], operation |-> "removed"]],
         customLabels |-> customLabels,
         requests |->
            SelectSeq([n \in 1..Len(desiredLabels) |-> Request(desiredLabels[n])]
                        \o [n \in 1..Len(removed) |->
                              LabelRequest("deleteLabel", removed[n], LabelFeat)],
                      IsCall)]

\* issues.updateLabel without new_name: the label keeps its name.
UpdateEffectKeepsName(labels, currentName, label) ==
    [n \in 1..Len(labels) |->
        IF labels[n].name = currentName
        THEN [name |-> labels[n].name, description |-> label.description,
              color |-> label.color]
        ELSE labels[n]]

\* issues.updateLabel { name: currentName, new_name, description, color }
\* taking effect on the repository's labels.
UpdateEffect(labels, currentName, label) ==
    [n \in 1..Len(labels) |->
        IF labels[n].name = currentName
        THEN [name |-> label.name, description |-> label.description, color |-> label.color]
        ELSE labels[n]]

\* issues.createLabel { name, description, color } taking effect.
CreateEffect(labels, label) ==
    Append(labels,
           [name |-> label.name, description |-> label.description, color |-> label.color])

\* issues.deleteLabel { name } taking effect.
DeleteEffect(labels, name) ==
    LET Other(l) == l.name # name IN SelectSeq(labels, Other)

\* The repository's labels once the requests have taken effect, in order.
RECURSIVE ApplyRequests(_, _)
ApplyRequests(labels, requests) ==
    IF requests = <<>> THEN labels
    ELSE LET request == Head(requests)
         IN  ApplyRequests(
                 CASE request.op = "createLabel" -> CreateEffect(labels, request.label)
                   [] request.op = "updateLabel" ->
                        UpdateEffect(labels, request.name, request.label)
                   [] OTHER -> DeleteEffect(labels, request.name),
                 Tail(requests))

\* How many passes of syncLabels have been made.
Passes ==
    LET IsList(call) == call.op = "listLabels" IN Len(SelectSeq(calls, IsList))

\* The flags of a run that syncs labels only.
LabelsInputs(dryRun, removeCustom) ==
    [dryRun |-> dryRun, removeCustomLabels |-> removeCustom, syncSettings |-> FALSE,
     syncProjects |-> FALSE, skipBackfill |-> TRUE]

\* One repository with some labels, a desired list; no call fails.
ResyncInit ==
    /\ inputs \in {LabelsInputs(dryRun, removeCustom) : dryRun, removeCustom \in BOOLEAN}
    /\ config \in {[labels |-> desiredLabels, settings |-> c.settings] :
                      desiredLabels \in DesiredLists, c \in Configs}
    /\ repos = <<DiscoveredRepo(1, NoProps)>>
    /\ customProperties = <<>>
    /\ repoNames = <<>>
    /\ pc = "syncLabels"
    /\ failures = MaxFailures
    /\ rateCheck = NoCheck
    /\ remoteLabels \in RemoteLabelLists
    /\ NothingDone

\* A pass of syncLabels over the repository, its calls taking effect.
SyncLabelsPass ==
    /\ pc = "syncLabels"
    /\ Passes < MaxPasses
    /\ LET pass == syncLabels(remoteLabels, config.labels, inputs.dryRun,
                              inputs.removeCustomLabels)
       IN  /\ existingLabels' = remoteLabels
           /\ labelResults' = pass.results
           /\ k' = Len(pass.results) + 1
           /\ calls' = (calls \o <<Call("listLabels", 0, <<>>, 0, NoPayload)>>)
                         \o [n \in 1..Len(pass.requests) |->
                               Call(pass.requests[n].op, 0, pass.requests[n].name, 0,
                                    NoPayload)]
           /\ remoteLabels' = ApplyRequests(remoteLabels, pass.requests)
    /\ UNCHANGED <<inputs, config, repos, rateCheck, discoveryVars, pc, resolveIdx,
                   projectCache, loopVars, repoVars, settingsResult, projectVars,
                   backfillVars, failed, failures>>

ResyncNext == SyncLabelsPass

ResyncSpec == ResyncInit /\ [][ResyncNext]_vars

\* The calls of the latest pass, its listing left out.
LatestPassCalls ==
    LET last == CHOOSE n \in 1..Len(calls) :
                    /\ calls[n].op = "listLabels"
                    /\ \A later \in (n + 1)..Len(calls) : calls[later].op # "listLabels"
    IN  SubSeq(calls, last + 1, Len(calls))

\* C22: label sync is idempotent.  Once a pass of a run that is no dry run
\* has been made and its calls have taken effect (create adds the label,
\* update sets name, colour and description to the desired ones, delete
\* removes the label), a further pass over the resulting labels reports
\* "unchanged" for every desired label and nothing else, makes no create,
\* update or delete call, and leaves the labels as they are.
C22_LabelSyncIsIdempotent ==
    (pc = "syncLabels" /\ ~inputs.dryRun /\ Passes >= 2) =>
        /\ Len(labelResults) = Len(config.labels)
        /\ \A n \in 1..Len(labelResults) :
              /\ labelResults[n].name = config.labels[n].name
              /\ labelResults[n].operation = "unchanged"
        /\ LatestPassCalls = <<>>
        /\ remoteLabels = existingLabels

\* A second pass after a first one that created, updated and deleted.
C22_Witness ==
    /\ pc = "syncLabels"
    /\ ~inputs.dryRun
    /\ inputs.removeCustomLabels
    /\ Passes = 2
    /\ \A op \in {"createLabel", "updateLabel", "deleteLabel"} :
          \E n \in 1..Len(calls) : calls[n].op = op
    /\ \E n \in 1..Len(calls) :
          calls[n].op = "updateLabel" /\ calls[n].name = NameBugCased

\* syncLabels has returned for the repository whose labels existingLabels holds.
LabelsReturned == (pc = "syncLabels" /\ Passes >= 1) \/ PastLabels

\* The create, update and delete calls of the latest pass of syncLabels.
LatestLabelCalls ==
    LET InOps(call) == call.op \in LabelOps IN SelectSeq(LatestPassCalls, InOps)

\* C23: with desired names distinct ignoring case, syncLabels reports exactly
\* one result per desired label, in order, each named as desired: "created"
\* iff no observed label has the same lowercased name; "updated" iff one has
\* and its colour (ignoring case), its description (null read as empty) or
\* the exact casing of its name differs; "unchanged" otherwise.  The results
\* after those are removals; an update call addresses the label by its
\* observed name; no label gets more than one result or more than one call.
C23_OneOperationPerDesiredLabel ==
    LET desiredLabels == config.labels
        Matches(desired) ==
            {m \in 1..Len(existingLabels) :
                ToLowerCase(existingLabels[m].name) = ToLowerCase(desired.name)}
        Differs(observed, desired) ==
            \/ ToLowerCase(observed.color) # ToLowerCase(desired.color)
            \/ (IF observed.description = Null THEN "" ELSE observed.description)
                  # desired.description
            \/ observed.name # desired.name
    IN  LabelsReturned =>
          /\ Len(labelResults) >= Len(desiredLabels)
          /\ \A n \in 1..Len(desiredLabels) :
                LET desired == desiredLabels[n]
                    result == labelResults[n]
                IN  /\ result.name = desired.name
                    /\ result.operation \in {"created", "updated", "unchanged"}
                    /\ result.operation = "created" <=> Matches(desired) = {}
                    /\ result.operation = "updated" <=>
                          \E m \in Matches(desired) : Differs(existingLabels[m], desired)
          /\ \A n \in (Len(desiredLabels) + 1)..Len(labelResults) :
                labelResults[n].operation = "removed"
          /\ \A a, b \in 1..Len(labelResults) :
                a # b => ToLowerCase(labelResults[a].name) # ToLowerCase(labelResults[b].name)
          /\ \A a, b \in 1..Len(LatestLabelCalls) :
                a # b => ToLowerCase(LatestLabelCalls[a].name)
                            # ToLowerCase(LatestLabelCalls[b].name)
          /\ \A n \in 1..Len(LatestLabelCalls) :
                LatestLabelCalls[n].op = "updateLabel" =>
                    \E m \in 1..Len(existingLabels) :
                        /\ existingLabels[m].name = LatestLabelCalls[n].name
                        /\ \E d \in 1..Len(desiredLabels) :
                              /\ m \in Matches(desiredLabels[d])
                              /\ labelResults[d].operation = "updated"

\* A pass that updates a label whose name alone differs, by its casing, under
\* its observed name, and creates the other desired label.
C23_Witness ==
    /\ pc = "syncLabels"
    /\ Passes = 1
    /\ ~inputs.dryRun
    /\ config.labels = <<LabelBug, LabelFeat>>
    /\ existingLabels = <<[name |-> NameBugCased, description |-> "Bug report",
                           color |-> ColorRed]>>
    /\ labelResults = <<[name |-> NameBug, operation |-> "updated", changes |-> <<"name">>],
                        [name |-> NameFeat, operation |-> "created"]>>
    /\ LatestLabelCalls = <<Call("updateLabel", 0, NameBugCased, 0, NoPayload),
                            Call("createLabel", 0, NameFeat, 0, NoPayload)>>

\* C24: the custom labels are the observed labels whose lowercased name is
\* that of no desired label; the result carries them whether or not removal
\* is asked for; a deleteLabel call is made only with remove-custom set and
\* dry-run off, only for a custom label of the repository, and never for a
\* label that matches a desired label ignoring case.
C24_OnlyCustomLabelsAreDeleted ==
    LET desiredNames == {ToLowerCase(config.labels[n].name) : n \in 1..Len(config.labels)}
        IsCustom(label) == ToLowerCase(label.name) \notin desiredNames
        custom == SelectSeq(existingLabels, IsCustom)
        IsDelete(call) == call.op = "deleteLabel"
        deletes == SelectSeq(calls, IsDelete)
    IN  /\ PastLabels =>
              RepoSyncResult.customLabels = [n \in 1..Len(custom) |-> custom[n].name]
        /\ \A n \in 1..Len(deletes) :
              /\ inputs.removeCustomLabels
              /\ ~inputs.dryRun
              /\ ToLowerCase(deletes[n].name) \notin desiredNames
              /\ deletes[n].repo = i =>
                    \E m \in 1..Len(custom) : custom[m].name = deletes[n].name

\* A real run with removal asked for, over observed labels of which one
\* matches a desired label but for its case: the custom label alone is
\* reported and deleted.
C24_Witness ==
    /\ pc = "assemble"
    /\ inputs.removeCustomLabels
    /\ ~inputs.dryRun
    /\ Len(existingLabels) = 3
    /\ RepoSyncResult.customLabels = <<NameStale>>
    /\ CallsFor(i, {"deleteLabel"}) = <<Call("deleteLabel", i, NameStale, 0, NoPayload)>>

\* Custom labels reported in a run without removal asked for.
CustomLabelsReportedOnly ==
    /\ pc = "assemble"
    /\ ~inputs.removeCustomLabels
    /\ RepoSyncResult.customLabels = <<NameStale>>
    /\ CallsFor(i, {"deleteLabel"}) = <<>>

\* The listing of the labels of the repository in progress failed.
ListLabelsFailed == \E f \in failed : f.call.op = "listLabels"

\* C29: when listLabels fails, syncLabels does not fail and goes on as if the
\* repository had no labels: every desired label is reported "created", in
\* order (with a createLabel call each unless in dry-run), there is no custom
\* label, no label is updated and none is deleted, even with remove-custom
\* set; no error record is added for it.
C29_ListFailureMeansNoLabels ==
    (PastLabels /\ ListLabelsFailed) =>
        /\ labelResults =
              [n \in 1..Len(config.labels) |->
                  [name |-> config.labels[n].name, operation |-> "created"]]
        /\ RepoSyncResult.customLabels = <<>>
        /\ CallsFor(i, LabelOps) =
              (IF inputs.dryRun THEN <<>>
               ELSE [n \in 1..Len(config.labels) |->
                        Call("createLabel", i, config.labels[n].name, 0, NoPayload)])
        /\ \A n \in 1..Len(errors) : errors[n].target = "repo"

\* A real run with removal asked for whose listing failed: the repository's
\* result is assembled with two labels created.
C29_Witness ==
    /\ pc = "assemble"
    /\ ListLabelsFailed
    /\ inputs.removeCustomLabels
    /\ ~inputs.dryRun
    /\ Len(labelResults) = 2
    /\ Len(CallsFor(i, {"createLabel"})) = 2
    /\ RepoSyncResult.success

\* The fetch of the repository in progress failed.
FetchFailed == \E f \in failed : f.call.op = "getRepo"

\* A failed fetch is captured and aborts nothing: the repository's errors
\* hold the repo-level record, its result reports no success, label sync
\* follows (the labels are listed), a tracked repository gets its project
\* step, the run is not failed, and when processRepos returns there is a
\* result for every repository.
FetchFailureIsCaptured ==
    /\ (FetchFailed /\ pc # "getRepo") =>
          /\ \E n \in 1..Len(errors) :
                errors[n].target = "repo" /\ errors[n].operation = "get"
          /\ ~RepoSyncResult.success
          /\ setFailed = ""
    /\ (FetchFailed /\ PastLabels) =>
          /\ Len(CallsFor(i, {"listLabels"})) = 1
          /\ Len(labelResults) >= Len(config.labels)
    /\ (FetchFailed /\ pc = "assemble"
          /\ inputs.syncProjects /\ getProjectNumber(Repo) # NoProject) => linkStatus # Null
    /\ pc = "done" => Len(results) = Len(repos)

\* C25 as stated: when fetching a repository's state fails, the failure is
\* captured as a repo-level error record on the repository's result
\* (success = false), processing continues with label sync and, when
\* settings sync is enabled, with settings sync: processRepo does not skip
\* syncSettings; the run is not aborted.
C25_FetchFailureKeepsSettingsSync ==
    /\ []FetchFailureIsCaptured
    /\ [][(pc = "settings" /\ FetchFailed /\ inputs.syncSettings) => ~SkipSettings]_vars

\* C25, amended: when fetching a repository's state fails, the failure is
\* captured as a repo-level error record on the repository's result
\* (success = false) and the run is not aborted; processing continues with
\* label sync and, for a tracked repository with project sync enabled, the
\* project step; settings sync is skipped even when it is enabled: no
\* update call is made and the result reports no changes, applied = true.
C25_FetchFailureSkipsSettingsSync ==
    /\ FetchFailureIsCaptured
    /\ (FetchFailed /\ PastSettings) =>
          /\ settingsResult = NoSettingsResult
          /\ CallsFor(i, {"updateRepo"}) = <<>>

\* A run with settings sync enabled over two repositories has returned: the
\* first one's fetch failed, its result holds the error record, its labels'
\* results and no settings change; the second one was processed.
C25_Witness ==
    /\ pc = "done"
    /\ inputs.syncSettings
    /\ ~inputs.dryRun
    /\ Len(results) = 2
    /\ ~results[1].success
    /\ results[1].errors = <<[target |-> "repo", operation |-> "get", error |-> "getRepo failed"]>>
    /\ Len(results[1].labels) >= 2
    /\ results[1].settingChanges = <<>>
    /\ results[1].settingsApplied
    /\ CallsFor(0, {"updateRepo"}) = <<>>
    /\ results[2].success

\* ------------------------------------------------ backfillItems on its own

\* The flags of a run that links and backfills.
BackfillInputs(dryRun) ==
    [dryRun |-> dryRun, removeCustomLabels |-> FALSE, syncSettings |-> FALSE,
     syncProjects |-> TRUE, skipBackfill |-> FALSE]

\* syncProject calls backfillItems for the repository with many open issues:
\* the project is resolved, the repository fetched, its labels synced against
\* no observed label, and the link step has ended without an error.  The
\* call log starts here.
BackfillInit ==
    /\ inputs \in {BackfillInputs(TRUE), BackfillInputs(FALSE)}
    /\ config \in Configs
    /\ repos = <<ManyIssuesRepo>>
    /\ customProperties = <<>>
    /\ repoNames = <<>>
    /\ NothingDiscovered
    /\ rateCheck = NoCheck
    /\ remoteLabels = <<>>
    /\ pc = "backfill"
    /\ resolveIdx = 2
    /\ projectCache =
          CacheSet([num \in {} |-> [ok |-> FALSE, error |-> ""]],
                   getProjectNumber(ManyIssuesRepo),
                   CacheEntry(getProjectNumber(ManyIssuesRepo), "open"))
    /\ i = 0
    /\ results = <<>>
    /\ repoData = GitHubRepo(DefaultSettings, ManyIssuesRepo.nodeId)
    /\ errors = <<>>
    /\ existingLabels = <<>>
    /\ labelResults = syncLabels(<<>>, config.labels, inputs.dryRun, FALSE).results
    /\ k = Len(config.labels) + 1
    /\ settingsResult = NoSettingsResult
    /\ linkStatus \in (IF inputs.dryRun THEN {"dry-run"} ELSE {"linked", "already"})
    /\ projectTitle = ProjectInfo(getProjectNumber(ManyIssuesRepo), FALSE).title
    /\ page = 1
    /\ pageCount = 0
    /\ items = 0
    /\ itemIdx = 1
    /\ added = 0
    /\ alreadyPresent = 0
    /\ calls = <<>>
    /\ failed = {}
    /\ failures = 0

\* backfillItems, then the return of processRepo and of processRepos.
BackfillNext ==
    \/ ListOpenIssues
    \/ AddItem
    \/ AssembleResult
    \/ ProcessReposReturn

BackfillSpec == BackfillInit /\ [][BackfillNext]_vars

\* backfillItems is running or has returned for the repository in progress.
InBackfill == pc \in {"backfill", "items", "assemble"} /\ linkStatus \notin {Null, "skipped", "error"}
                /\ ~inputs.skipBackfill

\* How many items the pages listed so far for the repository in progress
\* held: every page before the one in progress was full.
ItemsListed ==
    IF pc = "backfill" THEN (page - 1) * PER_PAGE ELSE (page - 1) * PER_PAGE + items

\* C27: during backfill every listed item contributes to at most one
\* counter: added counts the add calls that succeeded, alreadyPresent those
\* answered "already exists", and an add call that failed otherwise counts
\* for neither and does not stop the remaining items (when backfillItems
\* returns, an add call was made for every listed item).  In dry-run every
\* listed item is counted as added, no add call is made and alreadyPresent
\* stays 0.  Hence added + alreadyPresent never exceeds the items listed.
C27_BackfillCounters ==
    InBackfill =>
        LET adds == CallsFor(i, {"addItemToProject"})
            present == {f \in FailedIn({"addItemToProject"}) : f.reason = "already-exists"}
            others == {f \in FailedIn({"addItemToProject"}) : f.reason # "already-exists"}
        IN  /\ added + alreadyPresent <= ItemsListed
            /\ inputs.dryRun =>
                  /\ added = ItemsListed
                  /\ alreadyPresent = 0
                  /\ adds = <<>>
            /\ ~inputs.dryRun =>
                  /\ alreadyPresent = Cardinality(present)
                  /\ added = Len(adds) - Cardinality(present) - Cardinality(others)
                  /\ Len(adds) <= ItemsListed
                  /\ pc \in {"backfill", "assemble"} => Len(adds) = ItemsListed
                  /\ \A n \in 1..Len(adds) : adds[n].num = n

\* A real run's backfill has returned after a full page and one more item:
\* the first item was already present, the first item of the second page
\* failed otherwise, the other items were added.
C27_Witness ==
    /\ pc = "assemble"
    /\ ~inputs.dryRun
    /\ ItemsListed = PER_PAGE + 1
    /\ Len(CallsFor(i, {"addItemToProject"})) = PER_PAGE + 1
    /\ \E f \in FailedIn({"addItemToProject"}) : f.reason = "already-exists" /\ f.call.num = 1
    /\ \E f \in FailedIn({"addItemToProject"}) : f.reason = "failed" /\ f.call.num = PER_PAGE + 1
    /\ added = PER_PAGE - 1
    /\ alreadyPresent = 1

\* A dry run's backfill has returned after two full pages and one item.
DryRunBackfillCounted ==
    /\ pc = "assemble"
    /\ inputs.dryRun
    /\ added = 2 * PER_PAGE + 1
    /\ alreadyPresent = 0
    /\ CallsFor(i, {"addItemToProject"}) = <<>>

\* The secondary rate check comes right before the entry at position j of the
\* call log: its getRateLimit call, then its pause when it pauses.
RateCheckBefore(j) ==
    \/ j > 1 /\ calls[j - 1].op = "getRateLimit"
    \/ /\ j > 2
       /\ calls[j - 1] = Delay(i, GRAPHQL_PAUSE_DURATION_MS)
       /\ calls[j - 2].op = "getRateLimit"

\* C28: during backfill the pages are requested in increasing order from
\* page 1; the secondary rate check is made before the request of a page
\* exactly when the number of completed pages is positive and a multiple of
\* 3, never before the first page, and for nothing else; a further page is
\* requested only after a full page of 100 items, so pagination stops at the
\* first page that is empty, has fewer than 100 items or fails to list, a
\* listing failure being treated as an empty page.
C28_PaginationOrderAndStop ==
    InBackfill =>
        LET lists == CallsFor(i, {"listOpenIssues"})
            returned == pc = "assemble"
        IN  /\ \A n \in 1..Len(lists) : lists[n].num = n
            /\ Len(lists) = (IF pc = "backfill" THEN page - 1 ELSE page)
            /\ pageCount = (IF returned /\ items > 0 THEN page ELSE page - 1)
            /\ \A j \in 1..Len(calls) :
                  /\ calls[j].op = "listOpenIssues" =>
                        (RateCheckBefore(j) <=>
                            (calls[j].num - 1 > 0
                               /\ (calls[j].num - 1) % GRAPHQL_CHECK_INTERVAL = 0))
                  /\ (calls[j].op = "getRateLimit" /\ (j < Len(calls) \/ pc # "backfill")) =>
                        \E later \in {j + 1, j + 2} :
                            /\ later <= Len(calls)
                            /\ calls[later].op = "listOpenIssues"
                            /\ RateCheckBefore(later)
            /\ (pc = "backfill" /\ page > 1) => items = PER_PAGE
            /\ pc = "items" => items > 0
            /\ returned => items < PER_PAGE
            /\ \A f \in FailedIn({"listOpenIssues"}) :
                  /\ returned
                  /\ items = 0
                  /\ f.call = lists[Len(lists)]
                  /\ \A j \in 1..Len(calls) :
                        calls[j].op = "addItemToProject" =>
                            calls[j].num <= (f.call.num - 1) * PER_PAGE

\* A real run's backfill has returned after four full pages and a fifth
\* that failed to list: one rate check was made, right before page 4.
C28_Witness ==
    /\ pc = "assemble"
    /\ ~inputs.dryRun
    /\ CallsFor(i, {"listOpenIssues"}) =
          [n \in 1..5 |-> Call("listOpenIssues", i, <<>>, n, NoPayload)]
    /\ FailedIn({"listOpenIssues"}) # {}
    /\ Len(CallsFor(i, {"getRateLimit"})) = 1
    /\ \E j \in 1..Len(calls) :
          /\ calls[j] = Call("listOpenIssues", i, <<>>, 4, NoPayload)
          /\ RateCheckBefore(j)
    /\ Len(CallsFor(i, {"addItemToProject"})) = 4 * PER_PAGE

\* --------------------------------------------------- project tracking

\* Values of the project-tracking property.
TrackingTexts == {StrTrue, <<"T", "r", "u", "e">>, <<"f", "a", "l", "s", "e">>}

\* Values of the project-number property.
NumberTexts ==
    { <<>>, <<"1">>, <<"2">>, <<"0">>, <<"-", "1">>, <<"x">>, <<"1", "x">>, <<" ", "2">>,
      <<"+", "1">>, <<"1", ".", "5">> }

\* customProperties maps with either, both or none of the two properties.
TrackingProps ==
    {NoProps}
      \cup {[key \in {KeyProjectTracking} |-> t] : t \in TrackingTexts}
      \cup {[key \in {KeyProjectNumber} |-> n] : n \in NumberTexts}
      \cup {[key \in {KeyProjectTracking, KeyProjectNumber} |->
                IF key = KeyProjectTracking THEN t ELSE n] :
            t \in TrackingTexts, n \in NumberTexts}

\* The flags of a real run that syncs labels and, when asked, projects, and
\* skips the backfill.
TrackingInputs(syncProjects) ==
    [dryRun |-> FALSE, removeCustomLabels |-> FALSE, syncSettings |-> FALSE,
     syncProjects |-> syncProjects, skipBackfill |-> TRUE]

\* A run over two repositories, the first with any of the property maps, in
\* which no call made for a repository fails; what resolveProject and the
\* link call answer is open.
TrackingInit ==
    /\ inputs \in {TrackingInputs(TRUE), TrackingInputs(FALSE)}
    /\ config \in Configs
    /\ repos \in {<<DiscoveredRepo(1, first), DiscoveredRepo(2, second)>> :
                     first \in TrackingProps,
                     second \in {NoProps, TrackedProps(<<"1">>), TrackedProps(<<"2">>)}}
    /\ customProperties = <<>>
    /\ repoNames = <<>>
    /\ pc = "resolve"
    /\ failures = MaxFailures
    /\ rateCheck = NoCheck
    /\ remoteLabels = <<>>
    /\ NothingDone

TrackingNext ==
    \/ ResolveProject
    \/ ResolveDone
    \/ BeginRepo
    \/ GetRepo
    \/ ListLabels
    \/ CreateLabel
    \/ UpdateLabel
    \/ KeepLabel
    \/ SkipSettings
    \/ SkipProject
    \/ ProjectNotResolved
    \/ LinkRepo
    \/ AssembleResult
    \/ ProcessReposReturn

TrackingSpec == TrackingInit /\ [][TrackingNext]_vars

ProjectOps == {"linkRepoToProject", "listOpenIssues", "addItemToProject"}

\* C30: a repository is project-tracked exactly when its project-tracking
\* property equals "true" and its project-number property parses to a
\* positive integer, which is then the number the per-repository step uses.
\* With project sync enabled the numbers handed to resolveProjects are the
\* numbers the repositories look up, and once the loop runs they are the
\* keys of the cache; so status "skipped" is given only for a project whose
\* entry says closed or failed to resolve.  The result of an untracked
\* repository has projectNumber null and no link status, and no project call
\* is made for it.
C30_TrackedIffRequested ==
    LET Parsed(repo) == ParseInt(repo.customProperties[KeyProjectNumber])
        Tracked(repo) ==
            /\ KeyProjectTracking \in DOMAIN repo.customProperties
            /\ repo.customProperties[KeyProjectTracking] = StrTrue
            /\ KeyProjectNumber \in DOMAIN repo.customProperties
            /\ ~Parsed(repo).nan
            /\ Parsed(repo).val > 0
        lookedUp == {getProjectNumber(repos[n]) : n \in 1..Len(repos)} \ {NoProject}
    IN  /\ \A n \in 1..Len(repos) :
              /\ Tracked(repos[n]) <=> getProjectNumber(repos[n]) # NoProject
              /\ Tracked(repos[n]) => getProjectNumber(repos[n]) = Parsed(repos[n]).val
        /\ inputs.syncProjects =>
              /\ Range(ProjectNumbers) = lookedUp
              /\ pc # "resolve" => DOMAIN projectCache = lookedUp
        /\ ~inputs.syncProjects => projectCache = [num \in {} |-> [ok |-> FALSE, error |-> ""]]
        /\ \A n \in 1..Len(results) :
              LET result == results[n]
              IN  /\ result.projectNumber = getProjectNumber(repos[n])
                  /\ result.projectLinkStatus = "skipped" =>
                        /\ result.projectNumber \in DOMAIN projectCache
                        /\ ~projectCache[result.projectNumber].ok
                        /\ projectCache[result.projectNumber].error
                              \in {"Project is closed", "resolve failed"}
                  /\ ~Tracked(repos[n]) =>
                        /\ result.projectNumber = NoProject
                        /\ result.projectLinkStatus = Null
                        /\ CallsFor(n - 1, ProjectOps) = <<>>

\* A run with project sync enabled has returned: the first repository, whose
\* tracking property reads "True", is untracked and no project call was made
\* for it; the second, tracked by project 2, was skipped because the project
\* is closed; project 2 alone was resolved.
C30_Witness ==
    /\ pc = "done"
    /\ inputs.syncProjects
    /\ repos[1].customProperties =
          [key \in {KeyProjectTracking, KeyProjectNumber} |->
              IF key = KeyProjectTracking THEN <<"T", "r", "u", "e">> ELSE <<"1">>]
    /\ results[1].projectNumber = NoProject
    /\ CallsFor(0, ProjectOps) = <<>>
    /\ results[2].projectNumber = 2
    /\ results[2].projectLinkStatus = "skipped"
    /\ DOMAIN projectCache = {2}
    /\ projectCache[2].error = "Project is closed"

\* A repository whose number reads " 2" was linked to project 2.
TrackedByPaddedNumber ==
    /\ pc = "done"
    /\ repos[1].customProperties = TrackedProps(<<" ", "2">>)
    /\ results[1].projectNumber = 2
    /\ results[1].projectLinkStatus = "linked"

\* ------------------------------------------------------------ termination

\* The main step of a run that syncs everything: a real run over one
\* repository, or a dry run over one or two repositories or over the
\* repository with many open issues.  It goes on as long as it has a step to
\* take: the run is one sequential program, every call it awaits is
\* answered, and every delay and every pause ends.
LiveInit ==
    /\ \/ /\ inputs = FullInputs
          /\ repos \in {list \in RepoLists : Len(list) = 1}
       \/ /\ inputs = [FullInputs EXCEPT !.dryRun = TRUE]
          /\ repos \in RepoLists \cup {<<ManyIssuesRepo>>}
    /\ config \in Configs
    /\ customProperties = <<>>
    /\ repoNames = <<>>
    /\ pc = "resolve"
    /\ failures = 0
    /\ rateCheck = NoCheck
    /\ remoteLabels = <<>>
    /\ NothingDone

LiveSpec == LiveInit /\ [][Next]_vars /\ WF_vars(Next)

\* C26: once the loop over the repositories has started the run completes:
\* whatever calls fail, processRepos eventually returns, with a result for
\* every discovered repository.
C26_RunCompletes ==
    (pc = "loop" /\ i = 0) ~> (pc = "done" /\ Len(results) = Len(repos))

\* processRepos has returned a result for each of two repositories in a run
\* with a failed call, a pause-free pagination and an item added.
C26_Witness ==
    /\ pc = "done"
    /\ Len(repos) = 2
    /\ Len(results) = 2
    /\ failures = MaxFailures
    /\ \E n \in 1..Len(calls) : calls[n].op = "listOpenIssues"
    /\ \E n \in 1..Len(calls) : calls[n].op = "delay"

====
